---- MODULE Spec2Model ----
(***************************************************************************)
(* Frame synchronisation and swapchain lifecycle of the BOULDER engine     *)
(* (src/boulder_cgo.cpp): boulder_begin_frame, boulder_end_frame,          *)
(* boulder_render, recreate_swapchain and the calls that request a         *)
(* recreation, together with the GPU that completes submissions and the    *)
(* presentation engine that hands out images.                              *)
(*                                                                         *)
(* One call of the frame / recreation path is in progress at a time (pc);  *)
(* it is split where the code blocks (vkWaitForFences, vkDeviceWaitIdle)   *)
(* and where recreate_swapchain reads the surface a second time.  The      *)
(* short calls that only set flags (boulder_recreate_swapchain,            *)
(* boulder_set_window_size, boulder_poll_events) and a second call of      *)
(* boulder_render may arrive between those steps, as from another thread   *)
(* of the host program.                                                    *)
(*                                                                         *)
(* The result of vkWaitForFences and vkDeviceWaitIdle is discarded by the  *)
(* code; in Spec a wait returns when the fence is signaled (the device is  *)
(* idle); SpecLost adds the waits that return an error.  A vkDestroy*      *)
(* call on a handle that was destroyed before is recorded in rcLog and     *)
(* given no effect, except in SpecDestroy, where it may end the process.   *)
(*                                                                         *)
(* Specifications: SpecFrame (direct frames), SpecRender (boulder_render   *)
(* and recreation), Spec (the window as well), SpecRequest (repeated       *)
(* requests), SpecPresent (a presentation engine that leaves presentations *)
(* waiting), SpecLost (failing waits), SpecExtent (windows of several      *)
(* sizes), SpecDraw (draw-stream calls), SpecDestroy (a second destroy of  *)
(* a handle), SpecRestart (boulder_shutdown and a new session in the same  *)
(* process), and with fairness SpecLoop (poll/render loop), SpecStorm      *)
(* (resize during every rebuild), SpecDriver (begin/end driver that        *)
(* answers -2 with boulder_recreate_swapchain) and SpecNormal (frames      *)
(* begun and ended in pairs).                                              *)
(*                                                                         *)
(* SpecNetwork is the network part of the same file: sessions, the global  *)
(* maps g_serverSessions and g_connectionSessions, and the status          *)
(* callbacks of the networking library, which is the environment.          *)
(***************************************************************************)
EXTENDS Integers, Sequences, FiniteSets, TLC

\* ------------------------------------------------------------------ bounds
\* The largest swapchain (images).
MaxImages == 4
\* Frames completed by a driver of boulder_begin_frame / boulder_end_frame.
MaxFrames == 4
\* API calls that fail or report a stale surface.
MaxFaults == 1
\* Window changes and calls arriving from other callers.
MaxEvents == 1
\* Frames completed when boulder_render recreates the swapchain in between.
MaxRenderFrames == 3
\* Frames completed when the window changes as well.
MaxWindowFrames == 1
\* Window events in the render loop of SpecLoop: a minimize and a restore.
MaxLoopEvents == 2
\* Frames the render loop of SpecLoop may complete.
MaxLoopFrames == 1
\* Window events that start the resize storm of SpecStorm.
MaxStormEvents == 1
\* Frames the render loop of SpecStorm may complete.
MaxStormFrames == 1
\* Calls of boulder_recreate_swapchain in SpecRequest: two in a row.
MaxRequests == 2
\* Frames that SpecRequest may complete.
MaxRequestFrames == 1
\* Frames the begin/end driver of SpecDriver may complete.
MaxDriverFrames == 2
\* Presentations the presentation engine may leave waiting in SpecPresent.
MaxDelays == 1
\* Frames that SpecPresent may complete: one more than there are slots.
MaxPresentFrames == 4
\* Resizes, requests and frames of SpecExtent.
MaxExtentEvents == 2
MaxExtentFrames == 1
\* Draw-stream calls and frames of SpecDraw.
MaxDrawCalls == 1
MaxDrawFrames == 1
\* Requests for a recreation, and frames (one more than there are slots), of SpecNormal.
MaxNormalEvents == 1
MaxNormalFrames == 4
\* Requests and shutdowns, and frames, of SpecRestart.
MaxRestartEvents == 2
MaxRestartFrames == 2
\* Frames of SpecLost, where a wait for a fence may fail.
MaxLostFrames == 2

\* --------------------------------------------------------- program constants
MAX_FRAMES_IN_FLIGHT == 3
VK_NULL_HANDLE == 0
\* 0xFFFFFFFF, the width of an undefined currentExtent.  TLC's integers end at
\* 2^31 - 1, which stands for it: the code only compares a width with it.
UINT32_MAX == 2147483647

Slots == 0 .. (MAX_FRAMES_IN_FLIGHT - 1)

\* The handle of inFlightFences[s] / commandBuffers[s]: never VK_NULL_HANDLE.
Handle(s) == s + 1
SlotOf(h) == h - 1

\* VkResult values the calls of the frame path can return.
AcquireResults == {"VK_SUCCESS", "VK_SUBOPTIMAL_KHR", "VK_ERROR_OUT_OF_DATE_KHR", "VK_ERROR_DEVICE_LOST"}
PresentResults == {"VK_SUCCESS", "VK_SUBOPTIMAL_KHR", "VK_ERROR_OUT_OF_DATE_KHR", "VK_ERROR_DEVICE_LOST"}
CallResults == {"VK_SUCCESS", "VK_ERROR_OUT_OF_DEVICE_MEMORY"}

\* Window sizes SDL_GetWindowSize can report; a dimension of 0 is a minimized window.
WindowSizes == {<<0, 0>>, <<0, 1>>, <<1, 1>>, <<2, 1>>}
UndefinedExtent == <<UINT32_MAX, UINT32_MAX>>

\* Sizes boulder_create_window can be called with and the user can give the
\* window, some of them wider than maxImageExtent.
PixelSizes == {<<1, 1>>, <<2, 1>>, <<3, 1>>}

VARIABLES
    \* g_engine
    swapchainNeedsRecreate, isRecreatingSwapchain, resizeEventDuringRecreate,
    currentFrameIndex, imagesInFlight, activeCommandBuffer, swapchainExtent,
    imageViewsLive, depthLive, semaphoresLive,
    \* the device and the presentation engine
    fenceSignaled, pending, acquired, presentQueue,
    \* the window and the surface
    windowSize, resizeEventQueued, surface,
    \* the call in progress
    pc, caller, imageIndex,
    \* observation
    ret, bfLog, rcLog, rcSize, lastClaim, framesCompleted, activeRecreations,
    reentry, requestDuringRecreate, faults, events, frames, delays,
    \* the network sessions and the networking library
    sessions, g_serverSessions, g_connectionSessions, g_gnsRefCount,
    gnsListenSockets, gnsConnections, gnsCallbacks, delivered, netCalls

engineVars == <<swapchainNeedsRecreate, isRecreatingSwapchain, resizeEventDuringRecreate,
                currentFrameIndex, imagesInFlight, activeCommandBuffer, swapchainExtent,
                imageViewsLive, depthLive, semaphoresLive>>
deviceVars == <<fenceSignaled, pending, acquired, presentQueue>>
windowVars == <<windowSize, resizeEventQueued, surface>>
callVars == <<pc, caller, imageIndex>>
ghostVars == <<ret, bfLog, rcLog, rcSize, lastClaim, framesCompleted, activeRecreations,
               reentry, requestDuringRecreate, faults, events, frames, delays>>
netVars == <<sessions, g_serverSessions, g_connectionSessions, g_gnsRefCount,
             gnsListenSockets, gnsConnections, gnsCallbacks, delivered, netCalls>>
vars == <<engineVars, deviceVars, windowVars, callVars, ghostVars, netVars>>

\* ---------------------------------------------------------------- helpers
Images == 0 .. (Len(imagesInFlight) - 1)

\* Images of presentations the presentation engine has not taken yet.
Presenting == {presentQueue[i].image : i \in 1 .. Len(presentQueue)}

\* imagesInFlight is a std::vector indexed from 0; the model's sequence is indexed from 1.
Owner(img) == imagesInFlight[img + 1]

NoSubmission == [busy |-> FALSE, fence |-> VK_NULL_HANDLE, image |-> 0, wait |-> 0, signal |-> 0]
NoRet == [call |-> "none", value |-> 0, why |-> "none"]
NoClaim == [image |-> 0, owner |-> VK_NULL_HANDLE, slotBlocked |-> FALSE, blocked |-> FALSE,
            ownerSignaled |-> FALSE, done |-> FALSE, semaphore |-> 0,
            fence |-> VK_NULL_HANDLE]
Returned(call, value, why) == [call |-> call, value |-> value, why |-> why]

\* How many times the call e is in the log.
Count(log, e) == Cardinality({i \in 1 .. Len(log) : log[i] = e})

Pos(log, e) == IF \E i \in 1 .. Len(log) : log[i] = e
               THEN CHOOSE i \in 1 .. Len(log) : log[i] = e /\ \A j \in 1 .. (i - 1) : log[j] # e
               ELSE 0

\* An API call fails, or reports a stale surface: at most MaxFaults times.
Fault == faults > 0 /\ faults' = faults - 1

\* The window changes, or another caller asks for a recreation: at most MaxEvents times.
Event == events > 0 /\ events' = events - 1

\* ----------------------------------------------------- surface capabilities
\* A request for minImageCount + 1 images whatever the surface allows.
RequestedImageCountUncapped(caps) == caps.minImageCount + 1

\* imageCount in boulder_create_window.
InitialImageCount(caps) ==
    LET imageCount == caps.minImageCount + 1
    IN  IF caps.maxImageCount > 0 /\ imageCount > caps.maxImageCount
        THEN caps.maxImageCount
        ELSE imageCount

\* imageCount in recreate_swapchain: capabilities.minImageCount + 1, reduced to
\* maxImageCount when one is reported.
RequestedImageCount(caps) ==
    LET imageCount == caps.minImageCount + 1
    IN  IF caps.maxImageCount > 0 /\ imageCount > caps.maxImageCount
        THEN caps.maxImageCount
        ELSE imageCount

SurfaceCaps ==
    { c \in [minImageCount : {1, MaxImages - 1},
             maxImageCount : {0, MAX_FRAMES_IN_FLIGHT},
             extentDefined : BOOLEAN] :
        c.maxImageCount = 0 \/ c.minImageCount >= c.maxImageCount }

\* Every combination of the capabilities a surface may report: no maximum, a
\* maximum above minImageCount + 1, or one that minImageCount + 1 exceeds.
ValidSurfaceCaps ==
    { c \in [minImageCount : {1, MaxImages - 1},
             maxImageCount : {0, MAX_FRAMES_IN_FLIGHT},
             extentDefined : BOOLEAN] :
        c.maxImageCount = 0 \/ c.minImageCount <= c.maxImageCount }

\* capabilities.currentExtent as the surface reports it for the window's size.
CurrentExtent == IF surface.extentDefined THEN windowSize ELSE UndefinedExtent

MinImageExtent == <<1, 1>>
MaxImageExtent == <<2, 1>>

Clamp(v, lo, hi) == IF v < lo THEN lo ELSE IF v > hi THEN hi ELSE v

\* g_engine.swapchainExtent as recreate_swapchain sets it.
ChooseExtent(current, size) ==
    IF current[1] = UINT32_MAX
    THEN <<Clamp(size[1], MinImageExtent[1], MaxImageExtent[1]),
           Clamp(size[2], MinImageExtent[2], MaxImageExtent[2])>>
    ELSE current

\* g_engine.swapchainExtent as boulder_create_window sets it (no clamp).
InitialExtent(current, size) == IF current[1] = UINT32_MAX THEN size ELSE current

\* A check that would take only a window of 0 x 0 for minimized.
BothZero(size) == size[1] = 0 /\ size[2] = 0

\* width == 0 || height == 0
Minimized(size) == size[1] = 0 \/ size[2] = 0

\* ------------------------------------------------------------------- Init
\* ------------------------------------------------------ network sessions
\* Addresses at which a BoulderNetworkSession can be allocated, and the handles
\* the networking library gives to listen sockets and to connections.
MaxSessions == 2
MaxListenSockets == 2
MaxConnections == 2
\* API calls and library events of SpecNetwork.
MaxNetCalls == 6

SessionIds == 1 .. MaxSessions
ListenSockets == 1 .. MaxListenSockets
Connections == 1 .. MaxConnections

k_HSteamListenSocket_Invalid == 0
k_HSteamNetConnection_Invalid == 0
\* No session: a null BoulderNetworkSession*, or no entry in a global map.
NoSession == 0

\* A BoulderNetworkSession as its member initializers leave it; state tells
\* whether the address holds no object, a live one, or one that was deleted
\* (whose fields are what the memory last held).
NewSession(state) ==
    [state |-> state, listenSocket |-> k_HSteamListenSocket_Invalid, isServer |-> FALSE,
     connectionMap |-> {}]

\* A connection handle that the library has closed or never given out.
ClosedConnection == [state |-> "none", listenSocket |-> k_HSteamListenSocket_Invalid]

NoDelivery == [log |-> <<>>, crashed |-> FALSE]

InitNetwork ==
    /\ sessions = [s \in SessionIds |-> NewSession("free")]
    /\ g_serverSessions = [l \in ListenSockets |-> NoSession]
    /\ g_connectionSessions = [c \in Connections |-> NoSession]
    /\ g_gnsRefCount = 0
    /\ gnsListenSockets = {}
    /\ gnsConnections = [c \in Connections |-> ClosedConnection]
    /\ gnsCallbacks = <<>>
    /\ delivered = NoDelivery
    /\ netCalls = MaxNetCalls

\* One more call or library event, in a process that has not crashed.
NetCall == ~delivered.crashed /\ netCalls > 0 /\ netCalls' = netCalls - 1

\* Nothing of the renderer changes.
RendererUnchanged == UNCHANGED <<engineVars, deviceVars, windowVars, callVars, ghostVars>>

Live(s) == sessions[s].state = "live"

\* CloseConnection on each connection of a set.
CloseConnections(gns, conns) == [c \in Connections |-> IF c \in conns THEN ClosedConnection ELSE gns[c]]

\* CloseListenSocket: the socket goes, and the library closes the connections
\* that came in on it.
AcceptedOn(gns, l) == {c \in Connections : l # k_HSteamListenSocket_Invalid /\ gns[c].listenSocket = l}

\* The queued status callbacks, all of them or without those of connections
\* the application has closed: the library decides.
RECURSIVE Purged(_, _)
Purged(queue, conns) ==
    IF queue = <<>> THEN <<>>
    ELSE IF Head(queue).conn \in conns THEN Purged(Tail(queue), conns)
    ELSE <<Head(queue)>> \o Purged(Tail(queue), conns)

QueueAfterClose(queue, conns, purge) == IF purge THEN Purged(queue, conns) ELSE queue

\* g_serverSessions and g_connectionSessions after
\* boulder_destroy_network_session(s): the function does not touch them.
MapAfterDestroy(map, s) == map

\* boulder_create_network_session: the first session initializes the library
\* and installs GlobalConnectionStatusChanged; the object may be allocated
\* where a deleted one was.
boulder_create_network_session(s) ==
    /\ NetCall
    /\ ~Live(s)
    /\ g_gnsRefCount' = g_gnsRefCount + 1
    /\ sessions' = [sessions EXCEPT ![s] = NewSession("live")]
    /\ UNCHANGED <<g_serverSessions, g_connectionSessions, gnsListenSockets, gnsConnections,
                   gnsCallbacks, delivered>>
    /\ RendererUnchanged

\* boulder_start_server: s->listenSocket takes what CreateListenSocketIP
\* returns, a new handle or k_HSteamListenSocket_Invalid; a handle is entered
\* in g_serverSessions.  A socket the session had before stays open.
boulder_start_server(s, l) ==
    /\ NetCall
    /\ Live(s)
    /\ l \notin gnsListenSockets
    /\ sessions' = [sessions EXCEPT ![s].listenSocket = l,
                                    ![s].isServer = (l # k_HSteamListenSocket_Invalid \/ @)]
    /\ IF l = k_HSteamListenSocket_Invalid
       THEN UNCHANGED <<g_serverSessions, gnsListenSockets>>
       ELSE /\ g_serverSessions' = [g_serverSessions EXCEPT ![l] = s]
            /\ gnsListenSockets' = gnsListenSockets \cup {l}
    /\ UNCHANGED <<g_connectionSessions, g_gnsRefCount, gnsConnections, gnsCallbacks, delivered>>
    /\ RendererUnchanged

\* boulder_stop_server: erases the socket from g_serverSessions and closes it.
boulder_stop_server(s) ==
    /\ NetCall
    /\ Live(s)
    /\ sessions[s].listenSocket # k_HSteamListenSocket_Invalid
    /\ LET l == sessions[s].listenSocket
           closed == AcceptedOn(gnsConnections, l)
       IN /\ g_serverSessions' = [g_serverSessions EXCEPT ![l] = NoSession]
          /\ gnsListenSockets' = gnsListenSockets \ {l}
          /\ gnsConnections' = CloseConnections(gnsConnections, closed)
          /\ \E purge \in BOOLEAN : gnsCallbacks' = QueueAfterClose(gnsCallbacks, closed, purge)
    /\ sessions' = [sessions EXCEPT ![s].listenSocket = k_HSteamListenSocket_Invalid,
                                    ![s].isServer = FALSE]
    /\ UNCHANGED <<g_connectionSessions, g_gnsRefCount, delivered>>
    /\ RendererUnchanged

\* boulder_connect: a new connection is entered in g_connectionSessions and in
\* the connectionMap of the session; k_HSteamNetConnection_Invalid returns 0.
boulder_connect(s, c) ==
    /\ NetCall
    /\ Live(s)
    /\ c # k_HSteamNetConnection_Invalid => gnsConnections[c].state = "none"
    /\ IF c = k_HSteamNetConnection_Invalid
       THEN UNCHANGED <<sessions, g_connectionSessions, gnsConnections>>
       ELSE /\ g_connectionSessions' = [g_connectionSessions EXCEPT ![c] = s]
            /\ sessions' = [sessions EXCEPT ![s].connectionMap = @ \cup {c}]
            /\ gnsConnections' = [gnsConnections EXCEPT ![c] =
                                     [state |-> "connecting",
                                      listenSocket |-> k_HSteamListenSocket_Invalid]]
    /\ UNCHANGED <<g_serverSessions, g_gnsRefCount, gnsListenSockets, gnsCallbacks, delivered>>
    /\ RendererUnchanged

\* boulder_disconnect of a connection the session has a handle for.
boulder_disconnect(s, c) ==
    /\ NetCall
    /\ Live(s)
    /\ c \in sessions[s].connectionMap
    /\ g_connectionSessions' = [g_connectionSessions EXCEPT ![c] = NoSession]
    /\ gnsConnections' = CloseConnections(gnsConnections, {c})
    /\ \E purge \in BOOLEAN : gnsCallbacks' = QueueAfterClose(gnsCallbacks, {c}, purge)
    /\ sessions' = [sessions EXCEPT ![s].connectionMap = @ \ {c}]
    /\ UNCHANGED <<g_serverSessions, g_gnsRefCount, gnsListenSockets, delivered>>
    /\ RendererUnchanged

\* boulder_destroy_network_session: closes the listen socket and the
\* connections of connectionMap, deletes the object, and shuts the library
\* down with the last session.
boulder_destroy_network_session(s) ==
    /\ NetCall
    /\ Live(s)
    /\ LET l == sessions[s].listenSocket
           closed == AcceptedOn(gnsConnections, l) \cup sessions[s].connectionMap
           last == g_gnsRefCount = 1
       IN /\ gnsListenSockets' = IF last THEN {} ELSE gnsListenSockets \ {l}
          /\ gnsConnections' = IF last THEN [c \in Connections |-> ClosedConnection]
                               ELSE CloseConnections(gnsConnections, closed)
          /\ \E purge \in BOOLEAN :
                gnsCallbacks' = IF last THEN <<>> ELSE QueueAfterClose(gnsCallbacks, closed, purge)
    /\ sessions' = [sessions EXCEPT ![s].state = "destroyed"]
    /\ g_gnsRefCount' = g_gnsRefCount - 1
    /\ g_serverSessions' = MapAfterDestroy(g_serverSessions, s)
    /\ g_connectionSessions' = MapAfterDestroy(g_connectionSessions, s)
    /\ UNCHANGED delivered
    /\ RendererUnchanged

\* The library: a peer connects to an open listen socket.
IncomingConnection(l, c) ==
    /\ NetCall
    /\ l \in gnsListenSockets
    /\ gnsConnections[c].state = "none"
    /\ gnsConnections' = [gnsConnections EXCEPT ![c] = [state |-> "incoming", listenSocket |-> l]]
    /\ gnsCallbacks' = Append(gnsCallbacks, [conn |-> c, listenSocket |-> l, state |-> "Connecting"])
    /\ UNCHANGED <<sessions, g_serverSessions, g_connectionSessions, g_gnsRefCount,
                   gnsListenSockets, delivered>>
    /\ RendererUnchanged

\* The library: a connection that was started or accepted is established.
ConnectionEstablished(c) ==
    /\ NetCall
    /\ gnsConnections[c].state = "connecting"
    /\ gnsConnections' = [gnsConnections EXCEPT ![c].state = "connected"]
    /\ gnsCallbacks' = Append(gnsCallbacks, [conn |-> c, listenSocket |-> gnsConnections[c].listenSocket,
                                             state |-> "Connected"])
    /\ UNCHANGED <<sessions, g_serverSessions, g_connectionSessions, g_gnsRefCount,
                   gnsListenSockets, delivered>>
    /\ RendererUnchanged

\* The library: the peer closes a connection.
PeerCloses(c) ==
    /\ NetCall
    /\ gnsConnections[c].state \in {"incoming", "connecting", "connected"}
    /\ gnsConnections' = [gnsConnections EXCEPT ![c].state = "closed_by_peer"]
    /\ gnsCallbacks' = Append(gnsCallbacks, [conn |-> c, listenSocket |-> gnsConnections[c].listenSocket,
                                             state |-> "ClosedByPeer"])
    /\ UNCHANGED <<sessions, g_serverSessions, g_connectionSessions, g_gnsRefCount,
                   gnsListenSockets, delivered>>
    /\ RendererUnchanged

\* BoulderNetworkSession::OnConnectionStatusChanged on the object at session.
\* st holds the sessions, g_connectionSessions, the connections of the
\* library and the record of deliveries.  On a deleted object the call is a
\* use after free: the process crashes, or the handler works on what the
\* memory last held.
OnConnectionStatusChanged(st, info, session, env) ==
    LET obj == st.sessions[session]
        logged == [st EXCEPT !.log = Append(@, [conn |-> info.conn, session |-> session,
                                                live |-> obj.state = "live"])]
    IN IF obj.state # "live" /\ env.crashOnFreed
       THEN [logged EXCEPT !.crashed = TRUE]
       ELSE CASE info.state = "Connected" ->
                    [logged EXCEPT !.sessions[session].connectionMap = @ \cup {info.conn}]
              [] info.state = "ClosedByPeer" ->
                    [logged EXCEPT !.sessions[session].connectionMap = @ \ {info.conn},
                                   !.gns = CloseConnections(@, {info.conn})]
              [] info.state = "Connecting" ->
                    IF obj.isServer
                    THEN [logged EXCEPT
                            !.conns[info.conn] = session,
                            !.gns[info.conn] =
                                IF env.acceptOk /\ @.state = "incoming"
                                THEN [@ EXCEPT !.state = "connecting"]
                                ELSE ClosedConnection]
                    ELSE logged

\* GlobalConnectionStatusChanged: the session is looked up by connection in
\* g_connectionSessions, then by listen socket in g_serverSessions.
SessionOf(conns, info) ==
    IF conns[info.conn] # NoSession THEN conns[info.conn]
    ELSE IF info.listenSocket # k_HSteamListenSocket_Invalid
         THEN g_serverSessions[info.listenSocket]
         ELSE NoSession

GlobalConnectionStatusChanged(st, info, env) ==
    LET session == SessionOf(st.conns, info)
    IN IF session = NoSession THEN st ELSE OnConnectionStatusChanged(st, info, session, env)

\* RunCallbacks: every queued status callback is delivered, in order.
RECURSIVE RunCallbacks(_, _, _)
RunCallbacks(st, queue, env) ==
    IF queue = <<>> \/ st.crashed THEN st
    ELSE RunCallbacks(GlobalConnectionStatusChanged(st, Head(queue), env), Tail(queue), env)

\* boulder_network_update on a live session.
boulder_network_update(s) ==
    /\ NetCall
    /\ Live(s)
    /\ \E acceptOk \in BOOLEAN, crashOnFreed \in BOOLEAN :
         LET st == RunCallbacks([sessions |-> sessions, conns |-> g_connectionSessions,
                                 gns |-> gnsConnections, log |-> <<>>, crashed |-> FALSE],
                                gnsCallbacks,
                                [acceptOk |-> acceptOk, crashOnFreed |-> crashOnFreed])
         IN /\ sessions' = st.sessions
            /\ g_connectionSessions' = st.conns
            /\ gnsConnections' = st.gns
            /\ delivered' = [log |-> st.log, crashed |-> st.crashed]
    /\ gnsCallbacks' = <<>>
    /\ UNCHANGED <<g_serverSessions, g_gnsRefCount, gnsListenSockets>>
    /\ RendererUnchanged

NextNetwork ==
    \/ \E s \in SessionIds : boulder_create_network_session(s)
    \/ \E s \in SessionIds, l \in ListenSockets \cup {k_HSteamListenSocket_Invalid} :
          boulder_start_server(s, l)
    \/ \E s \in SessionIds : boulder_stop_server(s)
    \/ \E s \in SessionIds, c \in Connections \cup {k_HSteamNetConnection_Invalid} :
          boulder_connect(s, c)
    \/ \E s \in SessionIds, c \in Connections : boulder_disconnect(s, c)
    \/ \E s \in SessionIds : boulder_destroy_network_session(s)
    \/ \E l \in ListenSockets, c \in Connections : IncomingConnection(l, c)
    \/ \E c \in Connections : ConnectionEstablished(c)
    \/ \E c \in Connections : PeerCloses(c)
    \/ \E s \in SessionIds : boulder_network_update(s)

\* Fences that would be created without VK_FENCE_CREATE_SIGNALED_BIT.
FencesCreatedUnsignaled == [s \in Slots |-> FALSE]

\* inFlightFences as boulder_create_window creates them: signaled.
FencesCreated == [s \in Slots |-> TRUE]

\* The state boulder_create_window leaves behind: a chain built for a window of
\* non-zero size, every fence created signaled, no image owned by a fence.
InitSized(caps, sizes, nFaults, nEvents, nFrames, nDelays) ==
    /\ swapchainNeedsRecreate = FALSE
    /\ isRecreatingSwapchain = FALSE
    /\ resizeEventDuringRecreate = FALSE
    /\ currentFrameIndex = 0
    /\ surface \in caps
    /\ imagesInFlight = [i \in 1 .. InitialImageCount(surface) |-> VK_NULL_HANDLE]
    /\ activeCommandBuffer = VK_NULL_HANDLE
    /\ windowSize \in sizes
    /\ swapchainExtent = InitialExtent(CurrentExtent, windowSize)
    /\ imageViewsLive = TRUE
    /\ depthLive = TRUE
    /\ semaphoresLive = TRUE
    /\ fenceSignaled = FencesCreated
    /\ pending = [s \in Slots |-> NoSubmission]
    /\ acquired = {}
    /\ presentQueue = <<>>
    /\ resizeEventQueued = FALSE
    /\ pc = "idle"
    /\ caller = "none"
    /\ imageIndex = 0
    /\ ret = NoRet
    /\ bfLog = <<>>
    /\ rcLog = <<>>
    /\ rcSize = windowSize
    /\ lastClaim = NoClaim
    /\ framesCompleted = 0
    /\ activeRecreations = 0
    /\ reentry = 0
    /\ requestDuringRecreate = FALSE
    /\ faults = nFaults
    /\ events = nEvents
    /\ frames = nFrames
    /\ delays = nDelays
    /\ InitNetwork

\* A window created with 1 x 1 pixels.
InitDelays(caps, nFaults, nEvents, nFrames, nDelays) ==
    InitSized(caps, {<<1, 1>>}, nFaults, nEvents, nFrames, nDelays)

\* The same with a presentation engine that takes every presentation at once.
InitWith(caps, nFaults, nEvents, nFrames) == InitDelays(caps, nFaults, nEvents, nFrames, 0)

\* ------------------------------------------------------ boulder_begin_frame
\* Where the call in progress continues once boulder_begin_frame has returned
\* `value`: boulder_render goes on to recreate_swapchain (-2) or to
\* boulder_end_frame (0); a direct call is over.
AfterBegin(c, value) ==
    IF c = "render"
    THEN (IF value = -2 THEN "render_recreate" ELSE IF value = 0 THEN "render_end" ELSE "idle")
    ELSE "idle"

CallerAfter(nextPc, c) == IF nextPc = "idle" THEN "none" ELSE c

\* A begin_frame that would go on without the wait for the slot's fence.
SlotFenceWaitSkipped == TRUE

\* vkWaitForFences on inFlightFences[currentFrameIndex] returns.
SlotFenceWaitReturns == fenceSignaled[currentFrameIndex]

\* A begin_frame that would go on without the wait for the owner of the image.
ImageFenceWaitSkipped(img) == TRUE

\* The wait on imagesInFlight[*imageIndex], made only when the entry is not
\* VK_NULL_HANDLE, returns.
ImageFenceWaitReturns(img) ==
    IF Owner(img) = VK_NULL_HANDLE THEN TRUE ELSE fenceSignaled[SlotOf(Owner(img))]

\* A begin_frame that would reset the slot's fence right after the wait for it,
\* ahead of the acquisition.
FencesResetBeforeAcquire(result) == [fenceSignaled EXCEPT ![currentFrameIndex] = FALSE]

\* The fences once the acquisition block has run: the code acquires "before
\* resetting fence, in case acquisition fails".
FencesAfterAcquire(result) == fenceSignaled

\* A begin_frame that would treat every result but VK_SUCCESS as a failure.
AcquireValueStrict(result) == IF result = "VK_SUCCESS" THEN 0 ELSE -1

\* What boulder_begin_frame returns on the result of vkAcquireNextImageKHR
\* (0: it goes on to claim the image).
AcquireValue(result) ==
    IF result \in {"VK_ERROR_OUT_OF_DATE_KHR", "VK_SUBOPTIMAL_KHR"} THEN -2
    ELSE IF result # "VK_SUCCESS" THEN -1
    ELSE 0

AcquireWhy(result) ==
    CASE result = "VK_SUCCESS" -> "acquired"
      [] result = "VK_ERROR_OUT_OF_DATE_KHR" -> "acquire_out_of_date"
      [] result = "VK_SUBOPTIMAL_KHR" -> "acquire_suboptimal"
      [] OTHER -> "acquire_failed"

\* A begin_frame that would leave out the wait for the owner of the image when
\* the owner is the fence of the slot itself, which it has just waited for.
ImageWaitEventsOtherFence(owner, s) ==
    IF owner # VK_NULL_HANDLE /\ owner # Handle(s)
    THEN <<"vkWaitForFences(imagesInFlight)">> ELSE <<>>

\* The call of vkWaitForFences on imagesInFlight[*imageIndex]: made whenever
\* the entry is not VK_NULL_HANDLE, the fence of the slot itself included.
ImageWaitEvents(owner, s) ==
    IF owner # VK_NULL_HANDLE THEN <<"vkWaitForFences(imagesInFlight)">> ELSE <<>>

\* vkResetFences seen as a change of the fence of slot s.
ResetEvents(old, new, s) == IF old[s] /\ ~new[s] THEN <<"vkResetFences">> ELSE <<>>

\* Entry of boulder_begin_frame: the needsRecreate check.  (The engine is
\* initialized and has a device and a swapchain from boulder_create_window on.)
BeginFrameEntry(c) ==
    /\ pc = "idle"
    /\ bfLog' = <<>>
    /\ IF swapchainNeedsRecreate
       THEN /\ ret' = Returned("begin_frame", -2, "needs_recreate")
            /\ pc' = AfterBegin(c, -2)
            /\ caller' = CallerAfter(pc', c)
            /\ lastClaim' = lastClaim
       ELSE /\ frames > 0
            /\ ret' = NoRet
            /\ pc' = "bf_wait_slot"
            /\ caller' = c
            /\ lastClaim' = [NoClaim EXCEPT !.slotBlocked = ~fenceSignaled[currentFrameIndex]]
    /\ UNCHANGED <<engineVars, deviceVars, windowVars, imageIndex, rcLog, rcSize,
                   framesCompleted, frames, activeRecreations, reentry, requestDuringRecreate,
                   faults, events, delays>>
    /\ UNCHANGED netVars

boulder_begin_frame == BeginFrameEntry("begin_frame")

\* The semaphore vkAcquireNextImageKHR is given in slot s:
\* imageAvailableSemaphores[s].
AcquireSemaphore(s) == Handle(s)

\* What vkWaitForFences can return with a timeout of UINT64_MAX: the fence is
\* signaled, or the device is lost.
WaitResults == {"VK_SUCCESS", "VK_ERROR_DEVICE_LOST"}

\* The result of a vkWaitForFences that did not succeed, as the call left it.
WaitFailure(waitResult) == IF waitResult = "VK_SUCCESS" THEN <<>> ELSE <<waitResult>>

\* The wait for the slot's fence has returned waitResult, which the code does
\* not look at; then vkAcquireNextImageKHR and the handling of its result.  The
\* presentation engine hands out any image the application does not hold.
AcquireAfterWait(waitResult) ==
    /\ pc = "bf_wait_slot"
    /\ waitResult = "VK_SUCCESS" => SlotFenceWaitReturns
    /\ \E result \in AcquireResults, img \in Images :
        /\ result \in {"VK_SUCCESS", "VK_SUBOPTIMAL_KHR"} => img \notin (acquired \cup Presenting)
        /\ result \notin {"VK_SUCCESS", "VK_SUBOPTIMAL_KHR"} => img = 0
        /\ IF result = "VK_SUCCESS" THEN UNCHANGED faults ELSE Fault
        /\ fenceSignaled' = FencesAfterAcquire(result)
        /\ bfLog' = bfLog \o <<"vkWaitForFences(inFlightFences)">>
                          \o WaitFailure(waitResult)
                          \o ResetEvents(fenceSignaled, fenceSignaled', currentFrameIndex)
                          \o <<"vkAcquireNextImageKHR">>
        /\ acquired' = IF result \in {"VK_SUCCESS", "VK_SUBOPTIMAL_KHR"}
                       THEN acquired \cup {img} ELSE acquired
        /\ imageIndex' = IF result \in {"VK_SUCCESS", "VK_SUBOPTIMAL_KHR"} THEN img ELSE imageIndex
        /\ swapchainNeedsRecreate' =
              (swapchainNeedsRecreate \/ result \in {"VK_ERROR_OUT_OF_DATE_KHR", "VK_SUBOPTIMAL_KHR"})
        /\ IF AcquireValue(result) = 0
           THEN /\ pc' = "bf_wait_image"
                /\ caller' = caller
                /\ ret' = ret
                /\ lastClaim' = [lastClaim EXCEPT !.image = img, !.owner = Owner(img),
                                                  !.semaphore = AcquireSemaphore(currentFrameIndex),
                                                  !.fence = Handle(currentFrameIndex),
                                                  !.blocked = IF Owner(img) = VK_NULL_HANDLE THEN FALSE
                                                              ELSE ~fenceSignaled[SlotOf(Owner(img))]]
           ELSE /\ ret' = Returned("begin_frame", AcquireValue(result), AcquireWhy(result))
                /\ pc' = AfterBegin(caller, AcquireValue(result))
                /\ caller' = CallerAfter(pc', caller)
                /\ lastClaim' = lastClaim
    /\ UNCHANGED <<isRecreatingSwapchain, resizeEventDuringRecreate, currentFrameIndex,
                   imagesInFlight, activeCommandBuffer, swapchainExtent, imageViewsLive,
                   depthLive, semaphoresLive, pending, presentQueue, windowVars, rcLog, rcSize,
                   framesCompleted, frames, activeRecreations, reentry, requestDuringRecreate,
                   events, delays>>
    /\ UNCHANGED netVars

\* The wait for the slot's fence returns with the fence signaled.
BeginFrame_Acquire == AcquireAfterWait("VK_SUCCESS")

\* The wait for the slot's fence returns VK_ERROR_DEVICE_LOST.
BeginFrame_SlotWaitFails == AcquireAfterWait("VK_ERROR_DEVICE_LOST")

\* The wait for the fence that owns the acquired image has returned waitResult,
\* which the code does not look at; then vkResetFences, the new owner in
\* imagesInFlight, vkResetCommandBuffer and vkBeginCommandBuffer.
ClaimAfterWait(waitResult) ==
    /\ pc = "bf_wait_image"
    /\ IF waitResult = "VK_SUCCESS" THEN ImageFenceWaitReturns(imageIndex)
       ELSE Owner(imageIndex) # VK_NULL_HANDLE
    /\ \E result \in CallResults :
        /\ IF result = "VK_SUCCESS" THEN UNCHANGED faults ELSE Fault
        /\ fenceSignaled' = [fenceSignaled EXCEPT ![currentFrameIndex] = FALSE]
        /\ imagesInFlight' = [imagesInFlight EXCEPT ![imageIndex + 1] = Handle(currentFrameIndex)]
        /\ lastClaim' = [lastClaim EXCEPT
                            !.ownerSignaled = (Owner(imageIndex) # VK_NULL_HANDLE
                                               /\ fenceSignaled[SlotOf(Owner(imageIndex))]),
                            !.done = TRUE]
        /\ bfLog' = bfLog
                    \o ImageWaitEvents(Owner(imageIndex), currentFrameIndex)
                    \o WaitFailure(waitResult)
                    \o ResetEvents(fenceSignaled, fenceSignaled', currentFrameIndex)
                    \o <<"imagesInFlight=", "vkResetCommandBuffer", "vkBeginCommandBuffer">>
        /\ activeCommandBuffer' = IF result = "VK_SUCCESS"
                                  THEN Handle(currentFrameIndex) ELSE VK_NULL_HANDLE
        /\ ret' = IF result = "VK_SUCCESS"
                  THEN Returned("begin_frame", 0, "recording")
                  ELSE Returned("begin_frame", -1, "begin_command_buffer_failed")
        /\ pc' = AfterBegin(caller, ret'.value)
        /\ caller' = CallerAfter(pc', caller)
    /\ UNCHANGED <<swapchainNeedsRecreate, isRecreatingSwapchain, resizeEventDuringRecreate,
                   currentFrameIndex, swapchainExtent, imageViewsLive, depthLive,
                   semaphoresLive, pending, acquired, presentQueue, windowVars, imageIndex,
                   rcLog, rcSize, framesCompleted, frames, activeRecreations, reentry,
                   requestDuringRecreate, events, delays>>
    /\ UNCHANGED netVars

\* The wait for the owner of the image returns with the fence signaled, or is
\* not made.
BeginFrame_Claim == ClaimAfterWait("VK_SUCCESS")

\* The wait for the owner of the image returns VK_ERROR_DEVICE_LOST.
BeginFrame_ImageWaitFails == ClaimAfterWait("VK_ERROR_DEVICE_LOST")

\* -------------------------------------------------------- boulder_end_frame
\* An end_frame that would step over a slot.
NextFrameIndexSkipping(i) == (i + 2) % MAX_FRAMES_IN_FLIGHT

\* g_engine.currentFrameIndex after a completed frame.
NextFrameIndex(i) == (i + 1) % MAX_FRAMES_IN_FLIGHT

\* An end_frame that would fail the frame on every result but VK_SUCCESS.
EndFrameValueStrict(result) == IF result = "VK_SUCCESS" THEN 0 ELSE -1

\* What boulder_end_frame returns once vkQueuePresentKHR has returned `result`.
EndFrameValue(result) == 0

PresentWhy(result) ==
    CASE result = "VK_SUCCESS" -> "presented"
      [] result = "VK_ERROR_OUT_OF_DATE_KHR" -> "present_out_of_date"
      [] result = "VK_SUBOPTIMAL_KHR" -> "present_suboptimal"
      [] OTHER -> "present_failed"

\* boulder_end_frame(img) with the results of vkEndCommandBuffer, vkQueueSubmit
\* and vkQueuePresentKHR.
\* The semaphores of a submission made in slot s: imageAvailableSemaphores[s]
\* is waited for at the color-attachment-output stage, renderFinishedSemaphores[s]
\* is signaled and is what vkQueuePresentKHR waits for.  Handles as for fences.
WaitSemaphore(s) == Handle(s)
SignalSemaphore(s) == Handle(s)

\* vkQueuePresentKHR has queued a presentation.
Presented(endResult, submitResult, presentResult) ==
    /\ endResult = "VK_SUCCESS"
    /\ submitResult = "VK_SUCCESS"
    /\ presentResult \in {"VK_SUCCESS", "VK_SUBOPTIMAL_KHR"}

\* The presentation engine may leave a presentation waiting on its semaphore
\* (at most MaxDelays times on its own accord) ...
CanDefer(endResult, submitResult, presentResult) ==
    Presented(endResult, submitResult, presentResult) /\ (delays > 0 \/ presentQueue # <<>>)

\* ... and takes presentations in the order they were queued.
MustDefer(endResult, submitResult, presentResult) ==
    Presented(endResult, submitResult, presentResult) /\ presentQueue # <<>>

\* A boulder_end_frame that does not look at the active command buffer.
FrameAlwaysOpen == TRUE

\* A frame is open: boulder_begin_frame left an active command buffer.
FrameOpen == activeCommandBuffer # VK_NULL_HANDLE

EndFrame(img, nextPc) ==
    IF ~FrameOpen
    THEN /\ ret' = Returned("end_frame", -1, "no_active_command_buffer")
         /\ pc' = nextPc
         /\ caller' = "none"
         /\ UNCHANGED <<engineVars, deviceVars, windowVars, imageIndex, bfLog, rcLog, rcSize,
                        lastClaim, framesCompleted, frames, activeRecreations, reentry,
                        requestDuringRecreate, faults, events, delays, netVars>>
    ELSE \E endResult \in CallResults, submitResult \in CallResults, presentResult \in PresentResults,
            deferred \in BOOLEAN :
         /\ deferred => CanDefer(endResult, submitResult, presentResult)
         /\ MustDefer(endResult, submitResult, presentResult) => deferred
         /\ endResult # "VK_SUCCESS" => (submitResult = "VK_SUCCESS" /\ presentResult = "VK_SUCCESS")
         /\ submitResult # "VK_SUCCESS" => presentResult = "VK_SUCCESS"
         /\ IF endResult = "VK_SUCCESS" /\ submitResult = "VK_SUCCESS" /\ presentResult = "VK_SUCCESS"
            THEN UNCHANGED faults ELSE Fault
         /\ pc' = nextPc
         /\ caller' = "none"
         /\ activeCommandBuffer' = VK_NULL_HANDLE
         /\ IF endResult # "VK_SUCCESS" \/ submitResult # "VK_SUCCESS"
            THEN /\ ret' = Returned("end_frame", -1,
                                    IF endResult # "VK_SUCCESS"
                                    THEN "end_command_buffer_failed" ELSE "submit_failed")
                 /\ UNCHANGED <<swapchainNeedsRecreate, currentFrameIndex, pending, acquired,
                                presentQueue, delays, framesCompleted, frames>>
            ELSE /\ pending' = [pending EXCEPT ![SlotOf(activeCommandBuffer)] =
                                   [busy |-> TRUE, fence |-> Handle(currentFrameIndex), image |-> img,
                                    wait |-> WaitSemaphore(currentFrameIndex),
                                    signal |-> SignalSemaphore(currentFrameIndex)]]
                 /\ presentQueue' = IF deferred
                                    THEN Append(presentQueue,
                                                [semaphore |-> SignalSemaphore(currentFrameIndex),
                                                 image |-> img])
                                    ELSE presentQueue
                 /\ delays' = IF deferred /\ presentQueue = <<>> THEN delays - 1 ELSE delays
                 /\ acquired' = IF presentResult \in {"VK_SUCCESS", "VK_SUBOPTIMAL_KHR"}
                                THEN acquired \ {img} ELSE acquired
                 /\ swapchainNeedsRecreate' =
                       (swapchainNeedsRecreate
                        \/ presentResult \in {"VK_ERROR_OUT_OF_DATE_KHR", "VK_SUBOPTIMAL_KHR"})
                 /\ currentFrameIndex' = NextFrameIndex(currentFrameIndex)
                 /\ framesCompleted' = framesCompleted + 1
                 /\ frames' = frames - 1
                 /\ ret' = Returned("end_frame", EndFrameValue(presentResult), PresentWhy(presentResult))
         /\ UNCHANGED <<isRecreatingSwapchain, resizeEventDuringRecreate, imagesInFlight,
                        swapchainExtent, imageViewsLive, depthLive, semaphoresLive,
                        fenceSignaled, windowVars, imageIndex, rcLog, rcSize,
                        activeRecreations, reentry, requestDuringRecreate, events, netVars>>
         /\ bfLog' = <<>>
         /\ lastClaim' = NoClaim

\* A direct call, with the image index the caller got from boulder_begin_frame.
boulder_end_frame == pc = "idle" /\ EndFrame(imageIndex, "idle")

\* -------------------------------------------------------------- draw stream
\* The calls that record into the open frame, and what each records.
DrawOps == {"boulder_bind_pipeline", "boulder_set_viewport", "boulder_set_scissor",
            "boulder_draw_mesh", "boulder_set_push_constants", "boulder_ui_render"}

DrawCommand(op) ==
    CASE op = "boulder_bind_pipeline" -> "vkCmdBindPipeline"
      [] op = "boulder_set_viewport" -> "vkCmdSetViewport"
      [] op = "boulder_set_scissor" -> "vkCmdSetScissor"
      [] op = "boulder_draw_mesh" -> "vkCmdDrawMeshTasksEXT"
      [] op = "boulder_set_push_constants" -> "vkCmdPushConstants"
      [] op = "boulder_ui_render" -> "uiRenderer->render"

DrawCommands == {DrawCommand(op) : op \in DrawOps}

\* One of the draw-stream calls, between two calls of the frame API.  Each
\* returns at once unless g_engine.activeCommandBuffer is set; with a frame
\* open it records its command unless its argument is refused (`valid`: the
\* pipeline id is known, the push-constant data and layout exist, the image
\* index is in range).  The calls return nothing.
DrawStream(op, valid) ==
    /\ pc = "idle"
    /\ Event
    /\ IF ~FrameOpen
       THEN /\ bfLog' = bfLog
            /\ ret' = Returned(op, 0, "no_active_command_buffer")
       ELSE IF ~valid
       THEN /\ bfLog' = bfLog
            /\ ret' = Returned(op, 0, "invalid_argument")
       ELSE /\ bfLog' = Append(bfLog, DrawCommand(op))
            /\ ret' = Returned(op, 0, "recorded")
    /\ UNCHANGED <<engineVars, deviceVars, windowVars, callVars, rcLog, rcSize, lastClaim,
                   framesCompleted, frames, activeRecreations, reentry, requestDuringRecreate,
                   faults, delays>>
    /\ UNCHANGED netVars

\* ------------------------------------------------------------------- device
\* The GPU finishes the submission that used command buffer s and signals its fence.
GpuComplete(s) ==
    /\ pending[s].busy
    /\ pending' = [pending EXCEPT ![s] = NoSubmission]
    /\ fenceSignaled' = [fenceSignaled EXCEPT ![SlotOf(pending[s].fence)] = TRUE]
    /\ UNCHANGED <<engineVars, acquired, presentQueue, windowVars, callVars, ghostVars>>
    /\ UNCHANGED netVars

\* The presentation engine takes the oldest waiting presentation: its wait on
\* the render-finished semaphore is over once the submission that signals the
\* semaphore has finished, and the image can be acquired again.
PresentConsume ==
    /\ presentQueue # <<>>
    /\ \A t \in Slots : ~(pending[t].busy /\ pending[t].signal = Head(presentQueue).semaphore)
    /\ presentQueue' = Tail(presentQueue)
    /\ UNCHANGED <<engineVars, fenceSignaled, pending, acquired, windowVars, callVars, ghostVars>>
    /\ UNCHANGED netVars

\* ------------------------------------------------------- recreate_swapchain
RecreatePcs == {"rc_wait_idle", "rc_finish"}

\* A recreate_swapchain without the guard.
ReentryGuardOff == FALSE

\* "Prevent re-entry": the call returns at once while a recreation is running.
ReentryGuard == isRecreatingSwapchain

\* A recreate_swapchain that does not wait for the device.
DeviceIdleSkipped == TRUE

\* vkDeviceWaitIdle returns: no submission is executing.
DeviceIdle == \A s \in Slots : ~pending[s].busy

\* The stage at which a rebuild can fail, in the order of the code.
BuildStages == <<"vkCreateSwapchainKHR", "vkCreateImageView", "createDepthResources", "vkCreateSemaphore">>
StageNo(stage) == IF stage = "none" THEN Len(BuildStages) + 1 ELSE Pos(BuildStages, stage)

\* The calls of a rebuild that ran when it failed at `failAt` ("none": all of them).
\* The previous swapchain is destroyed once the new one exists.
BuildEvents(failAt) ==
    <<"vkGetPhysicalDeviceSurfaceCapabilitiesKHR", "vkCreateSwapchainKHR">>
    \o (IF failAt = "vkCreateSwapchainKHR" THEN <<>> ELSE <<"vkDestroySwapchainKHR">>)
    \o SubSeq(BuildStages, 2, IF failAt = "none" THEN Len(BuildStages) ELSE StageNo(failAt))
    \o (IF failAt = "none" THEN <<"currentFrameIndex=0">> ELSE <<>>)

\* What recreate_swapchain destroys before it reads the window size: the image
\* views, the depth target, and imageAvailableSemaphores[i] and
\* renderFinishedSemaphores[i] of every slot.  It destroys no fence and frees no
\* command buffer.
DestroyedAtRecreate == <<"vkDestroyImageView", "destroyDepthResources", "vkDestroySemaphore">>

\* boulder_render calls recreate_swapchain after boulder_begin_frame returned -2.
Recreate_Entry ==
    /\ pc = "render_recreate"
    /\ IF ReentryGuard
       THEN /\ ret' = Returned("recreate_swapchain", 0, "already_recreating")
            /\ pc' = "idle"
            /\ caller' = "none"
            /\ UNCHANGED <<isRecreatingSwapchain, resizeEventDuringRecreate, rcLog,
                           activeRecreations, requestDuringRecreate>>
       ELSE /\ isRecreatingSwapchain' = TRUE
            /\ resizeEventDuringRecreate' = FALSE
            /\ activeRecreations' = activeRecreations + 1
            /\ requestDuringRecreate' = FALSE
            /\ rcLog' = <<>>
            /\ ret' = NoRet
            /\ pc' = "rc_wait_idle"
            /\ caller' = caller
    /\ UNCHANGED <<swapchainNeedsRecreate, currentFrameIndex, imagesInFlight, activeCommandBuffer,
                   swapchainExtent, imageViewsLive, depthLive, semaphoresLive, deviceVars,
                   windowVars, imageIndex, bfLog, rcSize, lastClaim, framesCompleted, frames, reentry,
                   faults, events,
                   delays>>
    /\ UNCHANGED netVars

\* A recreate_swapchain that would return from a failed createDepthResources
\* with the guard still taken.
GuardKeptAfterDepthFailure(failAt) == failAt = "createDepthResources"

\* isRecreatingSwapchain at the return -1 after the creation `failAt` failed:
\* every one of these returns sets it to false first.
GuardAfterFailure(failAt) == FALSE

\* A recreate_swapchain that would clear the flag when it returns early.
FlagClearedAtEarlyReturn(flag) == FALSE

\* swapchainNeedsRecreate when recreate_swapchain returns for a minimized window
\* or after a failed creation: the flag is written only at the end of a
\* rebuild, so it is as it was.
FlagAtEarlyReturn(flag) == flag

\* From vkDeviceWaitIdle to "Frame index reset to 0": the old views, depth target
\* and semaphores are destroyed, the window size is read, and unless the window
\* is minimized the chain, its views, the depth target and the semaphores are
\* built again; every creation can fail.
Recreate_Rebuild ==
    /\ pc = "rc_wait_idle"
    /\ DeviceIdle
    /\ rcSize' = windowSize
    /\ IF Minimized(windowSize)
       THEN /\ rcLog' = <<"vkDeviceWaitIdle">> \o DestroyedAtRecreate \o <<"SDL_GetWindowSize">>
            /\ imageViewsLive' = FALSE
            /\ depthLive' = FALSE
            /\ semaphoresLive' = FALSE
            /\ isRecreatingSwapchain' = FALSE
            /\ activeRecreations' = activeRecreations - 1
            /\ ret' = Returned("recreate_swapchain", 0, "minimized")
            /\ pc' = "idle"
            /\ caller' = "none"
            /\ UNCHANGED <<swapchainExtent, imagesInFlight, currentFrameIndex, acquired,
                           framesCompleted, faults>>
       ELSE \E failAt \in {"none"} \cup {BuildStages[i] : i \in 1 .. Len(BuildStages)} :
            /\ IF failAt = "none" THEN UNCHANGED faults ELSE Fault
            /\ rcLog' = <<"vkDeviceWaitIdle">> \o DestroyedAtRecreate \o <<"SDL_GetWindowSize">> \o BuildEvents(failAt)
            /\ swapchainExtent' = ChooseExtent(CurrentExtent, windowSize)
            /\ imagesInFlight' = IF StageNo(failAt) > StageNo("vkCreateSwapchainKHR")
                                 THEN [i \in 1 .. RequestedImageCount(surface) |-> VK_NULL_HANDLE]
                                 ELSE imagesInFlight
            /\ acquired' = IF StageNo(failAt) > StageNo("vkCreateSwapchainKHR") THEN {} ELSE acquired
            /\ imageViewsLive' = (StageNo(failAt) > StageNo("vkCreateImageView"))
            /\ depthLive' = (StageNo(failAt) > StageNo("createDepthResources"))
            /\ semaphoresLive' = (StageNo(failAt) > StageNo("vkCreateSemaphore"))
            /\ IF failAt = "none"
               THEN /\ currentFrameIndex' = 0
                    /\ framesCompleted' = 0
                    /\ pc' = "rc_finish"
                    /\ caller' = caller
                    /\ ret' = ret
                    /\ UNCHANGED <<isRecreatingSwapchain, activeRecreations>>
               ELSE /\ isRecreatingSwapchain' = GuardAfterFailure(failAt)
                    /\ activeRecreations' = activeRecreations - 1
                    /\ ret' = Returned("recreate_swapchain", -1, failAt)
                    /\ pc' = "idle"
                    /\ caller' = "none"
                    /\ UNCHANGED <<currentFrameIndex, framesCompleted>>
    /\ swapchainNeedsRecreate' = IF pc' = "idle"
                                 THEN FlagAtEarlyReturn(swapchainNeedsRecreate)
                                 ELSE swapchainNeedsRecreate
    /\ UNCHANGED <<resizeEventDuringRecreate, activeCommandBuffer,
                   fenceSignaled, pending, windowVars, imageIndex, bfLog, lastClaim, reentry,
                   requestDuringRecreate, events, frames,
                   presentQueue, delays>>
    /\ UNCHANGED netVars

\* recreate_swapchain destroys the semaphores of the slots although the previous
\* recreation destroyed them and did not create them again (the handles in
\* imageAvailableSemaphores and renderFinishedSemaphores are not cleared).
\* vkDestroySemaphore on a destroyed handle is undefined: Recreate_Rebuild is the
\* outcome in which the driver does not notice, this one the outcome in which
\* the process ends in the call.
Recreate_DestroyedTwice ==
    /\ pc = "rc_wait_idle"
    /\ DeviceIdle
    /\ ~semaphoresLive
    /\ rcLog' = <<"vkDeviceWaitIdle">> \o DestroyedAtRecreate
    /\ imageViewsLive' = FALSE
    /\ depthLive' = FALSE
    /\ ret' = Returned("recreate_swapchain", -1, "vkDestroySemaphore")
    /\ pc' = "crashed"
    /\ caller' = "none"
    /\ UNCHANGED <<swapchainNeedsRecreate, isRecreatingSwapchain, resizeEventDuringRecreate,
                   currentFrameIndex, imagesInFlight, activeCommandBuffer, swapchainExtent,
                   semaphoresLive, deviceVars, windowVars, imageIndex, bfLog, rcSize,
                   lastClaim, framesCompleted, activeRecreations, reentry,
                   requestDuringRecreate, faults, events, frames, delays>>
    /\ UNCHANGED netVars

\* A recreate_swapchain that does not compare the extents.
ExtentNotCompared == FALSE

\* The extent the chain was built with differs from the one the surface reports now.
ExtentChanged == swapchainExtent # CurrentExtent

\* The second query of the surface capabilities and the decision on the flag.
Recreate_Finish ==
    /\ pc = "rc_finish"
    /\ LET resized == resizeEventDuringRecreate \/ ExtentChanged
       IN  swapchainNeedsRecreate' = IF resized THEN swapchainNeedsRecreate ELSE FALSE
    /\ resizeEventDuringRecreate' = FALSE
    /\ isRecreatingSwapchain' = FALSE
    /\ activeRecreations' = activeRecreations - 1
    /\ rcLog' = rcLog \o <<"vkGetPhysicalDeviceSurfaceCapabilitiesKHR">>
    /\ ret' = Returned("recreate_swapchain", 0, "rebuilt")
    /\ pc' = "idle"
    /\ caller' = "none"
    /\ UNCHANGED <<currentFrameIndex, imagesInFlight, activeCommandBuffer, swapchainExtent,
                   imageViewsLive, depthLive, semaphoresLive, deviceVars, windowVars,
                   imageIndex, bfLog, rcSize, lastClaim, framesCompleted, frames, reentry,
                   requestDuringRecreate, faults, events,
                   delays>>
    /\ UNCHANGED netVars

\* ----------------------------------------------------------- boulder_render
boulder_render == BeginFrameEntry("render")

\* boulder_render_models and boulder_ui_render record into the open frame;
\* then boulder_render returns what boulder_end_frame returns.
Render_EndFrame == pc = "render_end" /\ EndFrame(imageIndex, "idle")

\* A second call of boulder_render while recreate_swapchain is running:
\* boulder_begin_frame returns -2 on the flag and recreate_swapchain is entered
\* again.
Render_Reentrant ==
    /\ pc \in RecreatePcs
    /\ swapchainNeedsRecreate
    /\ Event
    /\ reentry' = reentry + 1
    /\ IF ReentryGuard
       THEN UNCHANGED <<isRecreatingSwapchain, resizeEventDuringRecreate, activeRecreations,
                        requestDuringRecreate, rcLog>>
       ELSE /\ isRecreatingSwapchain' = TRUE
            /\ resizeEventDuringRecreate' = FALSE
            /\ activeRecreations' = activeRecreations + 1
            /\ requestDuringRecreate' = FALSE
            /\ rcLog' = <<>>
    /\ UNCHANGED <<swapchainNeedsRecreate, currentFrameIndex, imagesInFlight, activeCommandBuffer,
                   swapchainExtent, imageViewsLive, depthLive, semaphoresLive, deviceVars,
                   windowVars, callVars, ret, bfLog, rcSize, lastClaim, framesCompleted, frames, faults,
                   delays>>
    /\ UNCHANGED netVars

\* ------------------------------------------------- requests for a recreation
\* A request that inverts the flag.
FlagToggled(flag) == ~flag

\* The flag after a request, whatever it was.
FlagAfterRequest(flag) == TRUE

\* boulder_recreate_swapchain only sets the flag.
boulder_recreate_swapchain ==
    /\ Event
    /\ swapchainNeedsRecreate' = FlagAfterRequest(swapchainNeedsRecreate)
    /\ requestDuringRecreate' = (requestDuringRecreate \/ isRecreatingSwapchain)
    /\ UNCHANGED <<isRecreatingSwapchain, resizeEventDuringRecreate, currentFrameIndex,
                   imagesInFlight, activeCommandBuffer, swapchainExtent, imageViewsLive,
                   depthLive, semaphoresLive, deviceVars, windowVars, callVars, ret, bfLog,
                   rcLog, rcSize, lastClaim, framesCompleted, frames, activeRecreations, reentry, faults,
                   delays>>
    /\ UNCHANGED netVars

\* boulder_set_window_size: SDL_SetWindowSize, then the flag.  SDL queues a
\* resize event when the size changes.
boulder_set_window_size(size) ==
    /\ Event
    /\ windowSize' = size
    /\ resizeEventQueued' = (resizeEventQueued \/ size # windowSize)
    /\ swapchainNeedsRecreate' = TRUE
    /\ requestDuringRecreate' = (requestDuringRecreate \/ isRecreatingSwapchain)
    /\ UNCHANGED <<isRecreatingSwapchain, resizeEventDuringRecreate, currentFrameIndex,
                   imagesInFlight, activeCommandBuffer, swapchainExtent, imageViewsLive,
                   depthLive, semaphoresLive, deviceVars, surface, callVars, ret, bfLog,
                   rcLog, rcSize, lastClaim, framesCompleted, frames, activeRecreations, reentry, faults,
                   delays>>
    /\ UNCHANGED netVars

\* The user resizes, minimizes or restores the window; SDL queues the event.
UserResize(size) ==
    /\ Event
    /\ size # windowSize
    /\ windowSize' = size
    /\ resizeEventQueued' = TRUE
    /\ UNCHANGED <<engineVars, deviceVars, surface, callVars, ret, bfLog, rcLog, rcSize,
                   lastClaim, framesCompleted, frames, activeRecreations, reentry,
                   requestDuringRecreate, faults,
                   delays>>
    /\ UNCHANGED netVars

\* boulder_poll_events takes a queued SDL_EVENT_WINDOW_RESIZED.
boulder_poll_events ==
    /\ resizeEventQueued
    /\ resizeEventQueued' = FALSE
    /\ swapchainNeedsRecreate' = TRUE
    /\ resizeEventDuringRecreate' = (resizeEventDuringRecreate \/ isRecreatingSwapchain)
    /\ requestDuringRecreate' = (requestDuringRecreate \/ isRecreatingSwapchain)
    /\ UNCHANGED <<isRecreatingSwapchain, currentFrameIndex, imagesInFlight,
                   activeCommandBuffer, swapchainExtent, imageViewsLive, depthLive,
                   semaphoresLive, deviceVars, windowSize, surface, callVars, ret, bfLog,
                   rcLog, rcSize, lastClaim, framesCompleted, frames, activeRecreations, reentry,
                   faults, events,
                   delays>>
    /\ UNCHANGED netVars

\* ------------------------------------------------------------ specification
\* Direct calls of boulder_begin_frame / boulder_end_frame, and the GPU.
FramePath ==
    \/ boulder_begin_frame
    \/ BeginFrame_Acquire
    \/ BeginFrame_Claim
    \/ boulder_end_frame
    \/ \E s \in Slots : GpuComplete(s)

\* boulder_render, the one caller of recreate_swapchain.
RenderPath ==
    \/ boulder_render
    \/ Render_EndFrame
    \/ Recreate_Entry
    \/ Recreate_Rebuild
    \/ Recreate_Finish

\* The window, and the calls that may arrive while another call is running.
WindowAndCallers ==
    \/ \E size \in WindowSizes : boulder_set_window_size(size)
    \/ \E size \in WindowSizes : UserResize(size)
    \/ boulder_poll_events
    \/ Render_Reentrant

NextFrame == FramePath
NextRender == FramePath \/ RenderPath \/ boulder_recreate_swapchain
Next == FramePath \/ RenderPath \/ boulder_recreate_swapchain \/ WindowAndCallers

DefinedExtentCaps == {c \in SurfaceCaps : c.extentDefined}

\* A driver that uses boulder_begin_frame / boulder_end_frame alone.
SpecFrame == InitWith(DefinedExtentCaps, MaxFaults, 0, MaxFrames) /\ [][NextFrame]_vars

\* Frames by either API with recreation on request or on a stale surface.
SpecRender == InitWith(DefinedExtentCaps, MaxFaults, MaxEvents, MaxRenderFrames) /\ [][NextRender]_vars

Init == InitWith(SurfaceCaps, MaxFaults, MaxEvents, MaxWindowFrames)

Spec == Init /\ [][Next]_vars

\* Frames by either API with repeated requests for a recreation; no call fails.
SpecRequest == InitWith(DefinedExtentCaps, 0, MaxRequests, MaxRequestFrames) /\ [][NextRender]_vars

\* boulder_begin_frame has just returned -2 to the driver.
GotRecreateSignal == pc = "idle" /\ ret.call = "begin_frame" /\ ret.value = -2

\* A driver of boulder_begin_frame / boulder_end_frame answers -2 by calling
\* boulder_recreate_swapchain, each time it gets -2 and before any other call.
Driver_AnswerRecreate ==
    /\ GotRecreateSignal
    /\ swapchainNeedsRecreate' = FlagAfterRequest(swapchainNeedsRecreate)
    /\ ret' = Returned("boulder_recreate_swapchain", 0, "requested")
    /\ UNCHANGED <<isRecreatingSwapchain, resizeEventDuringRecreate, currentFrameIndex,
                   imagesInFlight, activeCommandBuffer, swapchainExtent, imageViewsLive,
                   depthLive, semaphoresLive, deviceVars, windowVars, callVars, bfLog,
                   rcLog, rcSize, lastClaim, framesCompleted, frames, activeRecreations,
                   reentry, requestDuringRecreate, faults, events,
                   delays>>
    /\ UNCHANGED netVars

Driver_BeginFrame == ~GotRecreateSignal /\ boulder_begin_frame
Driver_EndFrame == ~GotRecreateSignal /\ boulder_end_frame

NextDriver ==
    \/ Driver_BeginFrame
    \/ BeginFrame_Acquire
    \/ BeginFrame_Claim
    \/ Driver_EndFrame
    \/ \E s \in Slots : GpuComplete(s)
    \/ Driver_AnswerRecreate

\* The driver keeps calling, a running call goes on and the GPU finishes.
DriverFairness ==
    /\ WF_vars(Driver_BeginFrame)
    /\ WF_vars(BeginFrame_Acquire)
    /\ WF_vars(BeginFrame_Claim)
    /\ WF_vars(Driver_EndFrame)
    /\ WF_vars(\E s \in Slots : GpuComplete(s))
    /\ WF_vars(Driver_AnswerRecreate)

\* The begin/end driver on a window of stable non-zero size; an acquire or a
\* present may report a stale surface.
SpecDriver ==
    /\ InitWith(DefinedExtentCaps, MaxFaults, 0, MaxDriverFrames)
    /\ [][NextDriver]_vars
    /\ DriverFairness

\* Direct frames on a presentation engine that may leave a presentation
\* waiting; no call fails and nothing is recreated.
NextPresent == FramePath \/ PresentConsume

SpecPresent ==
    /\ InitDelays(DefinedExtentCaps, 0, 0, MaxPresentFrames, MaxDelays)
    /\ [][NextPresent]_vars

\* The render loop of an application: boulder_poll_events and boulder_render
\* in turn, and the GPU.  No Vulkan call fails.
LoopCalls ==
    \/ boulder_render
    \/ BeginFrame_Acquire
    \/ BeginFrame_Claim
    \/ Render_EndFrame
    \/ Recreate_Entry
    \/ Recreate_Rebuild
    \/ Recreate_Finish
    \/ \E s \in Slots : GpuComplete(s)
    \/ boulder_poll_events

\* The render loop and the user, who resizes, minimizes or restores the window.
NextLoop ==
    \/ LoopCalls
    \/ \E size \in WindowSizes : UserResize(size)

\* The loop keeps calling, a running call goes on, the GPU finishes what was
\* submitted; nothing obliges the user to touch the window.
LoopFairness ==
    /\ WF_vars(boulder_render)
    /\ WF_vars(BeginFrame_Acquire)
    /\ WF_vars(BeginFrame_Claim)
    /\ WF_vars(Render_EndFrame)
    /\ WF_vars(Recreate_Entry)
    /\ WF_vars(Recreate_Rebuild)
    /\ WF_vars(Recreate_Finish)
    /\ WF_vars(\E s \in Slots : GpuComplete(s))
    /\ WF_vars(boulder_poll_events)

SpecLoop ==
    /\ InitWith(SurfaceCaps, 0, MaxLoopEvents, MaxLoopFrames)
    /\ [][NextLoop]_vars
    /\ LoopFairness

\* A resize storm: the user drags the window border, and the window has
\* another (non-zero) size again while a rebuild is between its creation calls
\* and the second query of the capabilities.
ResizeStorm(size) ==
    /\ pc = "rc_finish"
    /\ windowSize = rcSize
    /\ ~Minimized(size)
    /\ size # windowSize
    /\ windowSize' = size
    /\ resizeEventQueued' = TRUE
    /\ UNCHANGED <<engineVars, deviceVars, surface, callVars, ghostVars>>
    /\ UNCHANGED netVars

\* The window is never minimized in the storm.
NextStorm ==
    \/ LoopCalls
    \/ \E size \in {z \in WindowSizes : ~Minimized(z)} : UserResize(size)
    \/ \E size \in WindowSizes : ResizeStorm(size)

\* The render loop on a surface that reports its extent, under a resize storm.
SpecStorm ==
    /\ InitWith(DefinedExtentCaps, 0, MaxStormEvents, MaxStormFrames)
    /\ [][NextStorm]_vars
    /\ LoopFairness

\* ------------------------------------------------------------- properties
\* A step of boulder_begin_frame that resets a fence.
ResetStep == \E s \in Slots : fenceSignaled[s] /\ ~fenceSignaled'[s]

\* A step in which boulder_begin_frame, boulder_end_frame or recreate_swapchain returns.
ReturnStep(call) == ret' # ret /\ ret'.call = call

C2_LogOrdered ==
    LET waitSlot == Pos(bfLog, "vkWaitForFences(inFlightFences)")
        waitImage == Pos(bfLog, "vkWaitForFences(imagesInFlight)")
        reset == Pos(bfLog, "vkResetFences")
        owner == Pos(bfLog, "imagesInFlight=")
    IN  /\ reset # 0 => (waitSlot # 0 /\ waitSlot < reset /\ waitImage < reset)
        /\ owner # 0 => (waitSlot # 0 /\ waitSlot < owner /\ waitImage < owner)

\* C2: in boulder_begin_frame the slot's fence is reset strictly after the wait
\* for that fence and after the wait for the fence that owns the acquired image
\* (when it has an owner), and the new owner is written to the ownership table
\* only after both waits.
C2_ResetAfterWaits ==
    /\ []C2_LogOrdered
    /\ [][ResetStep =>
            /\ pc = "bf_wait_image"
            /\ \A s \in Slots : (fenceSignaled'[s] # fenceSignaled[s]) => s = currentFrameIndex
            /\ Pos(bfLog, "vkWaitForFences(inFlightFences)") # 0
            /\ Owner(imageIndex) # VK_NULL_HANDLE =>
                  /\ fenceSignaled[SlotOf(Owner(imageIndex))]
                  /\ Pos(bfLog', "vkWaitForFences(imagesInFlight)") # 0]_vars
    /\ [][(pc \in {"bf_wait_slot", "bf_wait_image"} /\ imagesInFlight' # imagesInFlight) =>
            /\ pc = "bf_wait_image"
            /\ fenceSignaled[currentFrameIndex]
            /\ Owner(imageIndex) # VK_NULL_HANDLE => fenceSignaled[SlotOf(Owner(imageIndex))]]_vars

\* A begin_frame that waited for both fences, reset the slot's fence and
\* recorded the new owner.
C2_Witness ==
    /\ Pos(bfLog, "vkWaitForFences(imagesInFlight)") # 0
    /\ Pos(bfLog, "vkResetFences") # 0
    /\ Pos(bfLog, "imagesInFlight=") # 0
    /\ lastClaim.slotBlocked
    /\ ~fenceSignaled[currentFrameIndex]
    /\ imagesInFlight[imageIndex + 1] = Handle(currentFrameIndex)

C4_StaleAcquire ==
    [][(ReturnStep("begin_frame")
        /\ ret'.why \in {"acquire_out_of_date", "acquire_suboptimal"}) =>
            /\ ret'.value = -2
            /\ swapchainNeedsRecreate'
            /\ UNCHANGED <<fenceSignaled, imagesInFlight, currentFrameIndex, activeCommandBuffer>>]_vars

\* A stale acquisition with an earlier frame still in flight.
C4_Witness ==
    /\ ret.call = "begin_frame"
    /\ ret.why \in {"acquire_out_of_date", "acquire_suboptimal"}
    /\ ret.value = -2
    /\ swapchainNeedsRecreate
    /\ \E s \in Slots : pending[s].busy /\ ~fenceSignaled[s]
    /\ fenceSignaled[currentFrameIndex]

\* C5: when vkQueuePresentKHR reports out-of-date or suboptimal,
\* boulder_end_frame sets swapchainNeedsRecreate and returns 0; the submission
\* is in flight with the slot's fence, no frame is open, the frame index has
\* advanced by one, and a submission in flight ends only by completing.
C5_StalePresent ==
    /\ [][(ReturnStep("end_frame")
           /\ ret'.why \in {"present_out_of_date", "present_suboptimal"}) =>
               /\ ret'.value = 0
               /\ swapchainNeedsRecreate'
               /\ pending'[SlotOf(activeCommandBuffer)].busy
               /\ pending'[SlotOf(activeCommandBuffer)].fence = Handle(currentFrameIndex)
               /\ ~fenceSignaled'[currentFrameIndex]
               /\ activeCommandBuffer' = VK_NULL_HANDLE
               /\ pc' = "idle"
               /\ currentFrameIndex' = (currentFrameIndex + 1) % MAX_FRAMES_IN_FLIGHT]_vars
    /\ [][\A s \in Slots : (pending[s].busy /\ ~pending'[s].busy) =>
               fenceSignaled'[SlotOf(pending[s].fence)]]_vars

\* A frame whose presentation was stale, submitted and then completed by the GPU.
C5_Witness ==
    /\ ret.call = "end_frame"
    /\ ret.why \in {"present_out_of_date", "present_suboptimal"}
    /\ ret.value = 0
    /\ swapchainNeedsRecreate
    /\ activeCommandBuffer = VK_NULL_HANDLE
    /\ framesCompleted = 2
    /\ ~pending[1].busy
    /\ fenceSignaled[1]

\* C6: a failure of acquisition, submission or presentation other than
\* out-of-date / suboptimal is returned to the caller as an error, never as
\* success.
C6_FailurePropagated ==
    (ret.why \in {"acquire_failed", "submit_failed", "present_failed"}) => ret.value # 0

C8_NoSecondRecreation ==
    /\ [](activeRecreations <= 1)
    /\ [][reentry' # reentry =>
            /\ isRecreatingSwapchain
            /\ UNCHANGED <<engineVars, deviceVars, windowVars, callVars, rcLog, rcSize, ret>>]_vars

\* boulder_render was called again while a rebuild waited for its second
\* query of the surface.
C8_Witness ==
    /\ reentry >= 1
    /\ pc = "rc_finish"
    /\ isRecreatingSwapchain
    /\ activeRecreations = 1

\* C9: a request for a recreation that arrives while recreate_swapchain runs
\* is not lost: swapchainNeedsRecreate is set when that recreation returns, and
\* no second recreation runs before it has returned.
C9_RequestNotLost ==
    /\ activeRecreations <= 1
    /\ (pc = "idle" /\ ret.call = "recreate_swapchain" /\ requestDuringRecreate)
          => swapchainNeedsRecreate

\* C10: with a window of zero width or height recreate_swapchain returns 0,
\* creates no swapchain, images or image views, leaves swapchainNeedsRecreate
\* set and clears isRecreatingSwapchain.
C10_MinimizedSkipsRebuild ==
    [][(pc = "rc_wait_idle" /\ pc' # pc /\ (windowSize[1] = 0 \/ windowSize[2] = 0)) =>
            /\ ret' = Returned("recreate_swapchain", 0, "minimized")
            /\ pc' = "idle"
            /\ \A i \in 1 .. Len(rcLog') :
                  rcLog'[i] \notin {BuildStages[j] : j \in 1 .. Len(BuildStages)}
            /\ ~imageViewsLive'
            /\ UNCHANGED <<swapchainExtent, imagesInFlight, currentFrameIndex>>
            /\ swapchainNeedsRecreate'
            /\ ~isRecreatingSwapchain']_vars

\* A recreation that found a window with one dimension of zero.
C10_Witness ==
    /\ ret = Returned("recreate_swapchain", 0, "minimized")
    /\ rcSize[1] = 0
    /\ rcSize[2] # 0
    /\ swapchainNeedsRecreate
    /\ ~isRecreatingSwapchain
    /\ ~imageViewsLive

\* A recreation has just been skipped for a window of zero size, the window
\* has a size again and will keep it, and the loop may still render.
RestoredAfterSkip ==
    /\ pc = "idle"
    /\ ret = Returned("recreate_swapchain", 0, "minimized")
    /\ ~Minimized(windowSize)
    /\ events = 0
    /\ frames > 0

\* boulder_render has returned a rendered frame.
FrameRendered == ret.call = "end_frame" /\ ret.value = 0

\* C11: after a recreation skipped for a zero-size window, once the window has
\* a non-zero size the next recreation builds everything again (swapchain,
\* image views, depth target, semaphores), and a frame is rendered afterwards.
C11_RestoreRebuildsAndRenders ==
    /\ [][(pc = "rc_wait_idle" /\ pc' # pc /\ Minimized(rcSize) /\ ~Minimized(windowSize))
           => \/ ret'.call = "recreate_swapchain" /\ ret'.value = -1
              \/ /\ \A i \in 1 .. Len(BuildStages) : Pos(rcLog', BuildStages[i]) > 0
                 /\ imageViewsLive' /\ depthLive' /\ semaphoresLive']_vars
    /\ (RestoredAfterSkip ~> FrameRendered)

\* The rebuild after a skipped recreation has run.
C11_Witness ==
    /\ rcLog # <<>>
    /\ Pos(rcLog, "vkCreateSwapchainKHR") > 0
    /\ ret = Returned("recreate_swapchain", 0, "rebuilt")
    /\ events = 0
    /\ imageViewsLive /\ depthLive /\ semaphoresLive

\* The calls of recreate_swapchain that destroy a resource of the old chain.
DestroyCalls == {"vkDestroyImageView", "destroyDepthResources", "vkDestroySemaphore",
                 "vkDestroySwapchainKHR"}

TransientOver ==
    /\ ~Minimized(windowSize)
    /\ rcSize = windowSize
    /\ ~resizeEventQueued
    /\ ~resizeEventDuringRecreate
    /\ events = 0
    /\ faults = 0

\* C13: a transient resize drops at most one frame: when the flag was set once
\* and the window then keeps a non-zero size, the one boulder_render call that
\* rebuilds returns with the flag cleared, and the following call renders a
\* frame.
C13_OneFrameDropped ==
    /\ [][(pc = "rc_finish" /\ pc' = "idle" /\ TransientOver) => ~swapchainNeedsRecreate']_vars
    /\ ((pc = "idle" /\ ret = Returned("recreate_swapchain", 0, "rebuilt")
            /\ TransientOver /\ frames > 0)
        ~> FrameRendered)

\* The rebuilding call has returned after a transient resize.
C13_Witness ==
    /\ pc = "idle"
    /\ ret = Returned("recreate_swapchain", 0, "rebuilt")
    /\ TransientOver
    /\ frames > 0

\* C14: at the end of a successful rebuild the surface capabilities are queried
\* again; when the reported extent differs from the extent of the new chain
\* the flag is still set at the return, and when it is the same and no resize
\* event arrived during the rebuild the flag is cleared.
C14_FlagAfterRequery ==
    [][(pc = "rc_finish" /\ pc' = "idle")
       => /\ ret' = Returned("recreate_swapchain", 0, "rebuilt")
          /\ rcLog'[Len(rcLog')] = "vkGetPhysicalDeviceSurfaceCapabilitiesKHR"
          /\ swapchainExtent # CurrentExtent => swapchainNeedsRecreate'
          /\ (swapchainExtent = CurrentExtent /\ ~resizeEventDuringRecreate)
             => ~swapchainNeedsRecreate']_vars

\* The window changed size during the rebuild and the event was not yet taken:
\* the rebuild has returned with the flag set.
C14_Witness ==
    /\ pc = "idle"
    /\ ret = Returned("recreate_swapchain", 0, "rebuilt")
    /\ surface.extentDefined
    /\ swapchainExtent # CurrentExtent
    /\ resizeEventQueued
    /\ swapchainNeedsRecreate

\* C15: the recreations chained by "resize happened during recreation" are
\* bounded: also when the extent changes during every rebuild, recreation stops
\* being repeated after finitely many rebuilds.
C15_RecreationsBounded == <>[](pc \notin RecreatePcs)

\* A call of boulder_recreate_swapchain: the one step of SpecRequest that
\* takes an event.
RequestStep == events' = events - 1

\* C16: boulder_recreate_swapchain is idempotent: a call sets the flag and
\* changes nothing else, so a call made when the flag is already set (a second
\* call in a row) leaves the engine exactly as it was; it never rebuilds or
\* destroys anything itself.
C16_RequestIdempotent ==
    [][RequestStep
       => /\ swapchainNeedsRecreate'
          /\ swapchainNeedsRecreate => UNCHANGED engineVars
          /\ UNCHANGED <<isRecreatingSwapchain, resizeEventDuringRecreate, currentFrameIndex,
                         imagesInFlight, activeCommandBuffer, swapchainExtent, imageViewsLive,
                         depthLive, semaphoresLive>>
          /\ UNCHANGED <<deviceVars, windowVars, callVars, rcLog, ret>>]_vars

\* Two calls in a row on a fresh engine: the flag is set and nothing else happened.
C16_Witness ==
    /\ events = MaxRequests - 2
    /\ swapchainNeedsRecreate
    /\ pc = "idle"
    /\ ret = NoRet
    /\ rcLog = <<>>
    /\ frames = MaxRequestFrames

\* C17: boulder_end_frame has an effect only while a frame is open: with no
\* active command buffer it returns an error and submits nothing, presents
\* nothing and does not advance the frame slot; after any return of
\* boulder_end_frame no frame is open.
C17_EndFrameOnlyWhenRecording ==
    [][ReturnStep("end_frame")
       => /\ activeCommandBuffer' = VK_NULL_HANDLE
          /\ activeCommandBuffer = VK_NULL_HANDLE
             => /\ ret'.value = -1
                /\ UNCHANGED <<engineVars, deviceVars, framesCompleted, frames>>]_vars

\* boulder_end_frame was called with no frame open, after a frame was presented.
C17_Witness ==
    /\ ret = Returned("end_frame", -1, "no_active_command_buffer")
    /\ activeCommandBuffer = VK_NULL_HANDLE
    /\ frames < MaxFrames
    /\ pc = "idle"

\* C18: for a driver of boulder_begin_frame / boulder_end_frame that answers -2
\* by calling boulder_recreate_swapchain, with a window of stable non-zero
\* size: once the flag is set a rebuild eventually runs and the flag is
\* eventually cleared, and a later boulder_begin_frame succeeds.
C18_DriverRecovers ==
    /\ swapchainNeedsRecreate ~> (~swapchainNeedsRecreate /\ rcLog # <<>>)
    /\ (swapchainNeedsRecreate /\ frames > 0)
          ~> (ret = Returned("begin_frame", 0, "recording"))

\* The driver has answered a -2 with boulder_recreate_swapchain.
C18_Witness ==
    /\ ret = Returned("boulder_recreate_swapchain", 0, "requested")
    /\ swapchainNeedsRecreate
    /\ ~Minimized(windowSize)
    /\ frames > 0

\* C19: no submission signals a render-finished semaphore while an earlier
\* presentation that waits on that same semaphore has not yet consumed it, for
\* every image count and acquisition order.
C19_SemaphoreNotResignaled ==
    [][\A s \in Slots :
          (pending'[s].busy /\ pending'[s] # pending[s])
          => \A i \in 1 .. Len(presentQueue) : presentQueue[i].semaphore # pending'[s].signal]_vars

\* A presentation is waiting on the render-finished semaphore of the slot the
\* open frame is about to submit in.
C19_Witness ==
    /\ activeCommandBuffer # VK_NULL_HANDLE
    /\ pc = "idle"
    /\ \E i \in 1 .. Len(presentQueue) :
          presentQueue[i].semaphore = SignalSemaphore(currentFrameIndex)

\* C20: for every frame the submission waits on the image-available semaphore
\* that was handed to the acquisition of that frame, signals the slot's
\* render-finished semaphore and the slot's fence, and the presentation of the
\* frame's image waits on that same render-finished semaphore; the presentation
\* engine takes a presentation only after the frame's submission has finished.
C20_FrameSemaphores ==
    /\ [][\A s \in Slots :
             (pending'[s].busy /\ pending'[s] # pending[s])
             => /\ lastClaim.done
                /\ pending'[s].wait = lastClaim.semaphore
                /\ pending'[s].image = lastClaim.image
                /\ pending'[s].signal = Handle(currentFrameIndex)
                /\ pending'[s].fence = Handle(currentFrameIndex)
                /\ ~fenceSignaled[currentFrameIndex]
                /\ Len(presentQueue') > Len(presentQueue)
                   => presentQueue'[Len(presentQueue')] =
                         [semaphore |-> pending'[s].signal, image |-> pending'[s].image]]_vars
    /\ [][(presentQueue # <<>> /\ presentQueue' = Tail(presentQueue))
           => \A t \in Slots :
                 ~(pending[t].busy /\ pending[t].image = Head(presentQueue).image)]_vars

\* A frame was begun in one slot and is about to be submitted in another: a
\* recreation has reset the frame index while the frame was open.
C20_Witness ==
    /\ pc = "idle"
    /\ activeCommandBuffer # VK_NULL_HANDLE
    /\ lastClaim.done
    /\ lastClaim.semaphore # AcquireSemaphore(currentFrameIndex)
    /\ ret = Returned("recreate_swapchain", 0, "rebuilt")

\* Frames on a device that can be lost while boulder_begin_frame waits.
NextLost == FramePath \/ BeginFrame_SlotWaitFails \/ BeginFrame_ImageWaitFails

SpecLost == InitWith(DefinedExtentCaps, MaxFaults, 0, MaxLostFrames) /\ [][NextLost]_vars

\* Chains built for windows of several sizes, at creation and at recreation.
NextExtent ==
    \/ FramePath
    \/ RenderPath
    \/ boulder_recreate_swapchain
    \/ \E size \in PixelSizes : UserResize(size)
    \/ boulder_poll_events

SpecExtent ==
    /\ InitSized(ValidSurfaceCaps, PixelSizes, 0, MaxExtentEvents, MaxExtentFrames, 0)
    /\ [][NextExtent]_vars

\* Frames with draw-stream calls before, in and after them, and recreations on
\* a stale surface.
NextDraw ==
    \/ FramePath
    \/ RenderPath
    \/ \E op \in DrawOps, valid \in BOOLEAN : DrawStream(op, valid)

SpecDraw == InitWith(DefinedExtentCaps, MaxFaults, MaxDrawCalls, MaxDrawFrames) /\ [][NextDraw]_vars

\* Normal operation: frames are begun and ended in pairs, by
\* boulder_begin_frame / boulder_end_frame or by boulder_render, which also
\* rebuilds the chain; recreations are requested between and during the calls;
\* no call fails.
Normal_BeginFrame == ~FrameOpen /\ boulder_begin_frame
Normal_EndFrame == FrameOpen /\ boulder_end_frame
Normal_Render == ~FrameOpen /\ boulder_render

NextNormal ==
    \/ Normal_BeginFrame
    \/ Normal_EndFrame
    \/ Normal_Render
    \/ BeginFrame_Acquire
    \/ BeginFrame_Claim
    \/ Render_EndFrame
    \/ Recreate_Entry
    \/ Recreate_Rebuild
    \/ Recreate_Finish
    \/ boulder_recreate_swapchain
    \/ \E s \in Slots : GpuComplete(s)
    \/ PresentConsume

\* The GPU finishes every submission, the presentation engine takes every
\* presentation and hands out an image that is free, and a call that can go on
\* does.  Nothing obliges the application to make another call.
NormalFairness ==
    /\ WF_vars(\E s \in Slots : GpuComplete(s))
    /\ WF_vars(PresentConsume)
    /\ WF_vars(BeginFrame_Acquire)
    /\ WF_vars(BeginFrame_Claim)

\* Surfaces whose chain has 1, 2 and 3 images.
NormalCaps ==
    {[minImageCount |-> 1, maxImageCount |-> 1, extentDefined |-> TRUE],
     [minImageCount |-> 1, maxImageCount |-> 0, extentDefined |-> TRUE],
     [minImageCount |-> 2, maxImageCount |-> 0, extentDefined |-> TRUE]}

SpecNormal ==
    /\ InitDelays(NormalCaps, 0, MaxNormalEvents, MaxNormalFrames, MaxDelays)
    /\ [][NextNormal]_vars
    /\ NormalFairness

\* Recreations that follow one another, with both outcomes of destroying a
\* semaphore that is already destroyed.
NextDestroy == Next \/ Recreate_DestroyedTwice

SpecDestroy == Init /\ [][NextDestroy]_vars

\* ------------------------------------------------- shutdown and a new session
\* std::vector::resize(n, VK_NULL_HANDLE) on imagesInFlight: the elements the
\* vector already has keep their values, new ones are VK_NULL_HANDLE.
Resized(old, n) == [i \in 1 .. n |-> IF i <= Len(old) THEN old[i] ELSE VK_NULL_HANDLE]

\* boulder_shutdown: waits for the device, destroys the semaphores and fences
\* of the slots, the command pool, the image views, the depth target, the
\* swapchain, the device and the window, and sets initialized to false.  It
\* writes none of swapchainNeedsRecreate, isRecreatingSwapchain,
\* currentFrameIndex, imagesInFlight and activeCommandBuffer.
boulder_shutdown ==
    /\ pc = "idle"
    /\ DeviceIdle
    /\ Event
    /\ imageViewsLive' = FALSE
    /\ depthLive' = FALSE
    /\ semaphoresLive' = FALSE
    /\ acquired' = {}
    /\ presentQueue' = <<>>
    /\ ret' = Returned("boulder_shutdown", 0, "shut_down")
    /\ pc' = "down"
    /\ UNCHANGED <<swapchainNeedsRecreate, isRecreatingSwapchain, resizeEventDuringRecreate,
                   currentFrameIndex, imagesInFlight, activeCommandBuffer, swapchainExtent,
                   fenceSignaled, pending, windowVars, caller, imageIndex, bfLog, rcLog,
                   rcSize, lastClaim, framesCompleted, frames, activeRecreations, reentry,
                   requestDuringRecreate, faults, delays>>
    /\ UNCHANGED netVars

\* boulder_init and boulder_create_window in the same process after a
\* shutdown: a new window, surface, device and swapchain, new semaphores and
\* (signaled) fences; imagesInFlight is resized.  The fields of g_engine that
\* only their initializers set keep the values of the previous session.
boulder_create_window ==
    /\ pc = "down"
    /\ \E caps \in DefinedExtentCaps :
        /\ surface' = caps
        /\ imagesInFlight' = Resized(imagesInFlight, InitialImageCount(caps))
    /\ windowSize' = <<1, 1>>
    /\ resizeEventQueued' = FALSE
    /\ swapchainExtent' = <<1, 1>>
    /\ imageViewsLive' = TRUE
    /\ depthLive' = TRUE
    /\ semaphoresLive' = TRUE
    /\ fenceSignaled' = FencesCreated
    /\ ret' = Returned("boulder_create_window", 0, "created")
    /\ pc' = "idle"
    /\ UNCHANGED <<swapchainNeedsRecreate, isRecreatingSwapchain, resizeEventDuringRecreate,
                   currentFrameIndex, activeCommandBuffer, pending, acquired, presentQueue,
                   caller, imageIndex, bfLog, rcLog, rcSize, lastClaim, framesCompleted,
                   frames, activeRecreations, reentry, requestDuringRecreate, faults, events,
                   delays>>
    /\ UNCHANGED netVars

\* Sessions that follow one another in one process.
NextRestart == NextRender \/ boulder_shutdown \/ boulder_create_window

SpecRestart ==
    /\ InitWith(DefinedExtentCaps, 0, MaxRestartEvents, MaxRestartFrames)
    /\ [][NextRestart]_vars

\* Network sessions created, used and destroyed while the renderer is idle.
SpecNetwork == InitWith({CHOOSE c \in DefinedExtentCaps : TRUE}, 0, 0, 0) /\ [][NextNetwork]_vars

\* The slots whose submission the GPU has not finished.
InFlight == {s \in Slots : pending[s].busy}

SlotFenceWaits ==
    Count(bfLog, "vkWaitForFences(inFlightFences)")
    + (IF lastClaim.owner # VK_NULL_HANDLE /\ lastClaim.owner = lastClaim.fence
       THEN Count(bfLog, "vkWaitForFences(imagesInFlight)") ELSE 0)

\* boulder_begin_frame has reset the command buffer of its slot for recording.
ReRecorded == Pos(bfLog, "vkResetCommandBuffer") # 0

\* C22 as stated: each time a slot is used again, its fence is waited exactly
\* once by boulder_begin_frame before the slot's command buffer is recorded
\* again, not zero times and not twice.
C22_WaitedExactlyOnce == ReRecorded => SlotFenceWaits = 1

\* C22, amended: before the slot's command buffer is recorded again,
\* boulder_begin_frame has waited for inFlightFences[currentFrameIndex] exactly
\* once, ahead of vkResetCommandBuffer; it waits for the same fence a second
\* time, through imagesInFlight, exactly when the acquired image was last
\* claimed by this slot, and never more than twice.
C22_WaitedOnceOrTwice ==
    ReRecorded =>
        /\ Count(bfLog, "vkWaitForFences(inFlightFences)") = 1
        /\ Pos(bfLog, "vkWaitForFences(inFlightFences)") < Pos(bfLog, "vkResetCommandBuffer")
        /\ SlotFenceWaits = (IF lastClaim.owner = lastClaim.fence THEN 2 ELSE 1)
        /\ Count(bfLog, "vkResetCommandBuffer") = 1

\* A slot is used again with the image it had the last time: its fence has been
\* waited for twice.
C22_Witness ==
    /\ ReRecorded
    /\ lastClaim.owner = lastClaim.fence
    /\ lastClaim.fence = Handle(currentFrameIndex)
    /\ SlotFenceWaits = 2
    /\ activeCommandBuffer = Handle(currentFrameIndex)

\* A wait for a fence in the current boulder_begin_frame has failed.
WaitFailed == Pos(bfLog, "VK_ERROR_DEVICE_LOST") # 0

\* C23: a fence wait in boulder_begin_frame that fails is fatal: the call makes
\* no further call after it (it does not acquire, reset the fence, claim the
\* image or record), opens no frame, and returns an error.
C23_WaitFailureIsFatal ==
    WaitFailed =>
        /\ Pos(bfLog, "VK_ERROR_DEVICE_LOST") = Len(bfLog)
        /\ ~FrameOpen
        /\ pc = "idle" => (ret.call = "begin_frame" /\ ret.value # 0)

\* boulder_begin_frame has returned 0 with a frame open although a wait failed
\* on a fence that was not signaled, and has reset the fence and claimed the image.
C23_Witness ==
    /\ WaitFailed
    /\ pc = "idle"
    /\ ret = Returned("begin_frame", 0, "recording")
    /\ FrameOpen
    /\ Pos(bfLog, "vkResetCommandBuffer") > Pos(bfLog, "VK_ERROR_DEVICE_LOST")
    /\ imagesInFlight[imageIndex + 1] = Handle(currentFrameIndex)
    /\ lastClaim.slotBlocked \/ lastClaim.blocked

\* recreate_swapchain is past its guard and has not returned.
Recreating == pc \in RecreatePcs \ {"render_recreate"}

\* C24: for any order of the public calls, recreate_swapchain never executes
\* while a frame is being recorded (between a boulder_begin_frame that returned
\* 0 and its boulder_end_frame).
C24_NoRecreateWhileRecording == Recreating => ~FrameOpen

\* recreate_swapchain has destroyed the image views and the semaphores of the
\* chain while the frame opened by boulder_begin_frame is still being recorded.
C24_Witness ==
    /\ Recreating
    /\ FrameOpen
    /\ Pos(rcLog, "vkDestroySemaphore") # 0
    /\ lastClaim.done
    /\ ret.call # "begin_frame"

\* recreate_swapchain has built the new chain: it is at its second query of the
\* surface, or has just returned 0 from it.
Rebuilt ==
    \/ pc = "rc_finish"
    \/ pc = "idle" /\ ret = Returned("recreate_swapchain", 0, "rebuilt")

\* What holds of the index and of imagesInFlight after a rebuild.
IndexAndTableReset ==
    /\ currentFrameIndex = 0
    /\ Len(imagesInFlight) = RequestedImageCount(surface)
    /\ \A img \in Images : Owner(img) = VK_NULL_HANDLE

\* C25: after every successful rebuild the frame-slot index is 0, imagesInFlight
\* has one entry per image of the new chain and every entry is empty, and the
\* fence of every slot is signaled, so that the first boulder_begin_frame after
\* the rebuild does not block on it.
C25_RebuildResetsTracking ==
    Rebuilt => (IndexAndTableReset /\ \A s \in Slots : fenceSignaled[s])

\* A rebuild has returned 0 with the index and the table reset and the fence of
\* slot 0 left unsignaled, with no submission that will signal it.
C25_Witness ==
    /\ pc = "idle"
    /\ ret = Returned("recreate_swapchain", 0, "rebuilt")
    /\ IndexAndTableReset
    /\ ~fenceSignaled[0]
    /\ InFlight = {}

\* The calls that end or replace a fence or a command buffer of a slot.
FenceAndBufferCalls ==
    {"vkDestroyFence", "vkCreateFence", "vkFreeCommandBuffers", "vkAllocateCommandBuffers"}

\* C26: the image-acquired semaphore, the fence and the command buffer
\* of a slot are created once and never destroyed or created again by a
\* recreation.
C26_SlotResourcesKept ==
    /\ semaphoresLive
    /\ \A i \in 1 .. Len(rcLog) :
          rcLog[i] \notin FenceAndBufferCalls \cup {"vkDestroySemaphore", "vkCreateSemaphore"}

\* A recreation on a window of usable size has returned 0 after it destroyed the
\* semaphores of the slots and created them again.
C26_Witness ==
    /\ pc = "idle"
    /\ ret = Returned("recreate_swapchain", 0, "rebuilt")
    /\ Pos(rcLog, "vkDestroySemaphore") # 0
    /\ Pos(rcLog, "vkDestroySemaphore") < Pos(rcLog, "vkCreateSemaphore")
    /\ semaphoresLive

\* currentExtent when it is defined, else the size clamped into
\* [minImageExtent, maxImageExtent].
ExtentOrClamped(current, size) ==
    IF current # UndefinedExtent THEN current
    ELSE <<Clamp(size[1], MinImageExtent[1], MaxImageExtent[1]),
           Clamp(size[2], MinImageExtent[2], MaxImageExtent[2])>>

\* recreate_swapchain sets the extent of the chain it is about to build.
ExtentStep == pc = "rc_wait_idle" /\ pc' # pc /\ ~Minimized(windowSize)

\* C27: at every build of the chain, the first one in boulder_create_window
\* and every rebuild, the chosen extent is the surface's currentExtent, or, when
\* that is undefined, the window's pixel size clamped into
\* [minImageExtent, maxImageExtent].
C27_ExtentAtEveryBuild ==
    /\ swapchainExtent = ExtentOrClamped(CurrentExtent, windowSize)
    /\ [][ExtentStep => swapchainExtent' = ExtentOrClamped(CurrentExtent, windowSize)]_vars

\* The chain boulder_create_window built is wider than maxImageExtent, and a
\* frame has been begun on it.
C27_Witness ==
    /\ rcLog = <<>>
    /\ ~surface.extentDefined
    /\ swapchainExtent = windowSize
    /\ swapchainExtent[1] > MaxImageExtent[1]
    /\ FrameOpen

\* The surface reports a maximum that minImageCount + 1 exceeds.
CountCapped(caps) == caps.maxImageCount > 0 /\ caps.minImageCount + 1 > caps.maxImageCount

\* C28: the chain is requested with minImageCount + 1 images, reduced to
\* maxImageCount when that is above 0 and exceeded, at the first build and at
\* every rebuild, and both compute the same value from the same capabilities.
C28_ImageCount ==
    /\ Len(imagesInFlight) = (IF CountCapped(surface) THEN surface.maxImageCount
                              ELSE surface.minImageCount + 1)
    /\ InitialImageCount(surface) = RequestedImageCount(surface)

\* A rebuild on a surface whose maximum is exceeded has asked for maxImageCount
\* images.
C28_Witness ==
    /\ Rebuilt
    /\ CountCapped(surface)
    /\ Len(imagesInFlight) = surface.maxImageCount
    /\ Pos(rcLog, "vkCreateSwapchainKHR") # 0

\* A draw-stream call is made and returns (the only calls of SpecDraw that
\* are counted by `events`).
DrawStep == events' # events /\ ret'.call \in DrawOps

\* C29: a draw-stream call records a command only while a frame is open;
\* without an open frame it records nothing; and in either case it leaves the
\* synchronisation and recreation state (fences, ownership table, slot index,
\* submissions, flags, open frame) as it was.
C29_DrawOnlyInOpenFrame ==
    [][DrawStep =>
         /\ UNCHANGED <<engineVars, deviceVars, windowVars, callVars, rcLog, lastClaim>>
         /\ activeCommandBuffer = VK_NULL_HANDLE => bfLog' = bfLog
         /\ bfLog' # bfLog => /\ activeCommandBuffer # VK_NULL_HANDLE
                              /\ bfLog' = Append(bfLog, DrawCommand(ret'.call))]_vars

\* A draw-stream call has recorded its command in the open frame.
C29_Witness ==
    /\ ret.call \in DrawOps
    /\ ret.why = "recorded"
    /\ FrameOpen
    /\ Len(bfLog) > 0
    /\ bfLog[Len(bfLog)] = DrawCommand(ret.call)

\* boulder_begin_frame has been called and has not returned.
BeginRunning == pc \in {"bf_wait_slot", "bf_wait_image"}

\* C30: in normal operation (the GPU finishes every submission, the
\* presentation engine hands out an image, no call fails) every call of
\* boulder_begin_frame returns, for every number of images and every order of
\* acquisition, the first frame after a recreation included.
C30_BeginFrameReturns == BeginRunning ~> ~BeginRunning

\* A boulder_begin_frame that found the fence of its slot unsignaled and the
\* fence of its image unsignaled has returned with the frame open.
C30_Witness ==
    /\ pc = "idle"
    /\ ret = Returned("begin_frame", 0, "recording")
    /\ lastClaim.done
    /\ lastClaim.slotBlocked
    /\ lastClaim.blocked
    /\ FrameOpen

\* The fence of slot s is unsignaled and no submission in flight will signal it.
FenceOrphaned(s) ==
    /\ ~fenceSignaled[s]
    /\ \A t \in Slots : ~(pending[t].busy /\ pending[t].fence = Handle(s))

\* C31: whenever no frame is open, the fence of every slot is signaled or is
\* the fence of a submission that is still executing, also after
\* boulder_begin_frame failed to open the command buffer and after
\* boulder_end_frame failed to close or submit it.
C31_NoFenceLeftReset ==
    (pc = "idle" /\ ~FrameOpen) => \A s \in Slots : ~FenceOrphaned(s)

\* boulder_end_frame has failed at vkQueueSubmit: no frame is open and the fence
\* of its slot is left reset with nothing that will signal it.
C31_Witness ==
    /\ pc = "idle"
    /\ ~FrameOpen
    /\ ret = Returned("end_frame", -1, "submit_failed")
    /\ FenceOrphaned(currentFrameIndex)

\* boulder_begin_frame has been called with a frame open and waits for the fence
\* of its slot, which the open frame has reset and not submitted.
SecondBeginWaiting ==
    /\ pc = "bf_wait_slot"
    /\ caller = "begin_frame"
    /\ FrameOpen
    /\ activeCommandBuffer = Handle(currentFrameIndex)

\* C32: a second boulder_begin_frame while a frame is open does not block for
\* ever: it never waits for a fence that no submission will signal.
C32_SecondBeginNotOrphaned == SecondBeginWaiting => ~FenceOrphaned(currentFrameIndex)

\* A second boulder_begin_frame waits for the fence the first one has reset;
\* nothing is in flight.
C32_Witness ==
    /\ SecondBeginWaiting
    /\ FenceOrphaned(currentFrameIndex)
    /\ InFlight = {}
    /\ lastClaim.slotBlocked
    /\ faults = MaxFaults

\* recreate_swapchain runs its destruction block (lines 713-726).
DestroyStep == pc = "rc_wait_idle" /\ pc' # pc

\* C33: across any sequence of recreations no semaphore is destroyed twice:
\* when recreate_swapchain destroys the semaphores of the slots they exist,
\* also when the previous recreation returned early for a minimized window or
\* after a failed creation.  (Image views are taken out of their vector and the
\* depth handles are cleared when destroyed, so only the semaphores can be
\* destroyed again.)
C33_NoDoubleDestroy == [][DestroyStep => semaphoresLive]_vars

\* The process has ended inside vkDestroySemaphore on a handle that the previous
\* recreation had destroyed.
C33_Witness ==
    /\ pc = "crashed"
    /\ ~semaphoresLive
    /\ Pos(rcLog, "vkDestroySemaphore") # 0
    /\ swapchainNeedsRecreate

\* The image views, the depth target and the semaphores of the slots exist.
GenerationLive == imageViewsLive /\ depthLive /\ semaphoresLive

\* C34: whenever a recreation has destroyed the image views, the depth target
\* or the semaphores without building them again, needsRecreate is set; so a
\* boulder_begin_frame that goes past its needsRecreate check finds them live.
C34_DestroyedImpliesFlag ==
    /\ [](pc \notin RecreatePcs /\ ~GenerationLive => swapchainNeedsRecreate)
    /\ [][(pc = "idle" /\ pc' \in {"bf_wait_slot"}) => GenerationLive]_vars

\* A recreation has returned early: the resources are destroyed and the flag is
\* still set, and the next boulder_begin_frame has returned -2.
C34_Witness ==
    /\ pc = "idle"
    /\ ~GenerationLive
    /\ swapchainNeedsRecreate
    /\ ret = Returned("begin_frame", -2, "needs_recreate")
    /\ Pos(rcLog, "vkDestroySemaphore") # 0

\* The surface reports an undefined current extent, and the window has kept the
\* non-zero size the running rebuild was made for; no resize event came.
UndefinedAndStable ==
    /\ ~surface.extentDefined
    /\ ~Minimized(windowSize)
    /\ rcSize = windowSize
    /\ ~resizeEventQueued
    /\ ~resizeEventDuringRecreate

\* C35: when the surface reports an undefined current extent (0xFFFFFFFF) and
\* the window size is stable and non-zero, a successful recreate_swapchain
\* returns with needsRecreate cleared, so the next boulder_render renders
\* instead of recreating again.
C35_UndefinedExtentClearsFlag ==
    [][(pc = "rc_finish" /\ pc' = "idle" /\ UndefinedAndStable) => ~swapchainNeedsRecreate']_vars

\* A rebuild on such a surface has returned 0 with the flag still set, no event
\* is left, and the window has its size.
C35_Witness ==
    /\ pc = "idle"
    /\ ret = Returned("recreate_swapchain", 0, "rebuilt")
    /\ UndefinedAndStable
    /\ swapchainNeedsRecreate
    /\ swapchainExtent = windowSize
    /\ events = 0

\* C36: the re-entrancy guard is released on every exit of recreate_swapchain
\* that took it (success, minimized window, failed swapchain, image view, depth
\* or semaphore creation): isRecreatingSwapchain is false whenever
\* recreate_swapchain is not executing, and a call that finds the guard free
\* always gets past it.
C36_GuardReleased ==
    /\ [](pc \notin RecreatePcs => ~isRecreatingSwapchain)
    /\ [][(pc \in RecreatePcs /\ pc' \notin RecreatePcs) => ~isRecreatingSwapchain']_vars
    /\ [](pc \notin RecreatePcs => activeRecreations = 0)

\* recreate_swapchain has returned -1 from a failed creation with the guard
\* released.
C36_Witness ==
    /\ pc = "idle"
    /\ ret.call = "recreate_swapchain"
    /\ ret.value = -1
    /\ ~isRecreatingSwapchain
    /\ activeRecreations = 0
    /\ swapchainNeedsRecreate

\* boulder_create_window returns in a process that has shut a session down.
CreateStep == pc = "down" /\ pc' = "idle"

\* C37: after boulder_shutdown, boulder_init and boulder_create_window in the
\* same process the synchronisation state is the initial one: needsRecreate is
\* false, the slot index is 0, and no entry of imagesInFlight has an owner.
C37_RestartIsInitial ==
    [][CreateStep => /\ ~swapchainNeedsRecreate'
                     /\ currentFrameIndex' = 0
                     /\ \A i \in 1 .. Len(imagesInFlight') : imagesInFlight'[i] = VK_NULL_HANDLE]_vars

\* The new session starts at slot 1 with an image owned by a fence of the
\* session before.
C37_Witness ==
    /\ pc = "idle"
    /\ ret = Returned("boulder_create_window", 0, "created")
    /\ currentFrameIndex # 0
    /\ \E img \in Images : Owner(img) # VK_NULL_HANDLE
    /\ InFlight = {}

\* The sessions that boulder_destroy_network_session has deleted.
Destroyed == {s \in SessionIds : sessions[s].state = "destroyed"}

\* C38: after boulder_destroy_network_session(s) neither g_serverSessions nor
\* g_connectionSessions has an entry that points to s, and no status callback
\* is delivered to a destroyed session.
C38_NoEntryForDestroyed ==
    /\ \A l \in ListenSockets : g_serverSessions[l] \notin Destroyed
    /\ \A c \in Connections : g_connectionSessions[c] \notin Destroyed
    /\ \A i \in 1 .. Len(delivered.log) : delivered.log[i].live

\* A callback was delivered to a session that was destroyed with its listen
\* socket still in g_serverSessions.
C38_Witness ==
    /\ \E s \in Destroyed : \E l \in ListenSockets : g_serverSessions[l] = s
    /\ \E i \in 1 .. Len(delivered.log) :
          /\ ~delivered.log[i].live
          /\ delivered.log[i].session \in Destroyed

====
